---- MODULE Spec2Model ----
(***************************************************************************)
(* A model of the MOV/MP4 demuxer of packages/mov-demuxer: the sample      *)
(* table parser, the index build and the MOVDemuxer facade (init, cursor,  *)
(* seek, sample data, close).                                              *)
(*                                                                         *)
(* The input file is given as its box tree, the way BoxParser hands it to  *)
(* MOVDemuxer.init: each table box carries the entry count its header      *)
(* declares and the entries its payload really holds, so that a truncated  *)
(* box is an input like any other.  Times are kept as exact fractions      *)
(* num/den, which is what the code's floating point division computes on   *)
(* the small integers used here.                                           *)
(***************************************************************************)
EXTENDS Integers, Sequences, FiniteSets, TLC

VARIABLES
    file,                \* the input buffer, as its box tree (never changes)
    options,             \* MOVDemuxer.options
    streams,             \* context.streams
    timeScale,           \* context.timeScale
    duration,            \* context.duration
    mdatOffset,          \* context.mdatOffset
    mdatSize,            \* context.mdatSize
    samples,             \* MOVDemuxer.samples
    currentSampleIndex,  \* MOVDemuxer.currentSampleIndex (0-based)
    webcodecs,           \* MOVDemuxer.webcodecs: <<>> when undefined
    lastOp,              \* the call or callback made last, with its argument
    result,              \* what that call returned or threw
    lifecycle,           \* the facade state of the design: Unparsed, Initialised, Closed
    inits,               \* number of init() calls made so far
    reader,              \* the ByteReader at work: <<>> when none is
    parser,              \* the BoxParser at work, with its loops: <<>> when none is
    calls,               \* the readFrame() calls that have not returned yet
    decoded              \* the chunks handed to the decoders, in order

vars == << file, options, streams, timeScale, duration, mdatOffset, mdatSize,
           samples, currentSampleIndex, webcodecs, lastOp, result, lifecycle, inits,
           reader, parser, calls, decoded >>

----------------------------------------------------------------------------
(* Bounds of the model *)

MaxTracks == 2
MaxSamples == 2
MaxInits == 2
MaxSeekStep == 3
MaxChunks == 2

(* Program constants *)

MICROS == 1000000
BOX_HEADER == 8
DEFAULT_TIME_SCALE == 1000
DEFAULT_DURATION == 0

----------------------------------------------------------------------------
(* Values *)

Min(a, b) == IF a < b THEN a ELSE b

\* A time in microseconds as the exact fraction num/den (den > 0).
Rat(n, d) == [num |-> n, den |-> d]
RatLE(a, b) == a.num * b.den <= b.num * a.den
RatLT(a, b) == a.num * b.den < b.num * a.den
RatEQ(a, b) == a.num * b.den = b.num * a.den
\* sample.timestamp > t, for an integer target t
RatGTInt(a, t) == a.num > t * a.den

\* What a call returns or throws.
Returned(kind, v) == [kind |-> kind, val |-> v]
Void == Returned("void", <<>>)
Null == Returned("null", <<>>)
Thrown(e) == Returned("throw", <<e>>)

\* errors.ts: the error model of the package
MOVError(code, message) == [name |-> "MOVError", code |-> code, message |-> message]
missingRequiredBox(type) == MOVError("MISSING_REQUIRED_BOX", "Missing required box: " \o type)
corruptData == MOVError("CORRUPT_DATA", "Corrupt or invalid data detected")

\* new Error(message)
Error(message) == [name |-> "Error", code |-> "", message |-> message]
\* what DataView.getUintN and the Uint8Array constructor throw out of range
RangeError == [name |-> "RangeError", code |-> "", message |-> "out of bounds"]
\* what VideoDecoder.close and AudioDecoder.close throw on a closed decoder
InvalidStateError == [name |-> "InvalidStateError", code |-> "", message |-> "closed codec"]

\* The outcome of a parse step: a value, or the error it threw.
Ok(v) == [ok |-> TRUE, val |-> v, err |-> RangeError]
Fail(e) == [ok |-> FALSE, val |-> <<>>, err |-> e]

----------------------------------------------------------------------------
(* ByteReader / SampleTableParser: the entry loops of the table boxes *)

\* for (i < entryCount) push(reader.readUint32()): DataView throws RangeError
\* as soon as an entry lies beyond the payload.
readEntries(box) ==
    IF box.entryCount > Len(box.entries)
    THEN Fail(RangeError)
    ELSE Ok(SubSeq(box.entries, 1, box.entryCount))

parseSTSZ(stsz) ==
    IF stsz.uniformSize = 0
    THEN readEntries(stsz)
    ELSE Ok([i \in 1..stsz.entryCount |-> stsz.uniformSize])

parseSTCO(stco) == readEntries(stco)
parseSTSC(stsc) == readEntries(stsc)
parseSTTS(stts) == readEntries(stts)
parseSTSS(stss) == readEntries(stss)

\* parseSampleTable: the boxes are decoded in the order stsz, stco, stsc, stts,
\* stss; the first one that throws ends the parse.  syncSamples is <<>> when
\* there is no stss box and <<list>> when there is one.
parseSampleTable(stbl) ==
    LET sz == parseSTSZ(stbl.stsz)
        co == parseSTCO(stbl.stco)
        sc == parseSTSC(stbl.stsc)
        ts == parseSTTS(stbl.stts)
        ss == IF stbl.stss = <<>> THEN Ok(<<>>) ELSE parseSTSS(stbl.stss[1])
    IN  IF ~sz.ok THEN Fail(sz.err)
        ELSE IF ~co.ok THEN Fail(co.err)
        ELSE IF ~sc.ok THEN Fail(sc.err)
        ELSE IF ~ts.ok THEN Fail(ts.err)
        ELSE IF ~ss.ok THEN Fail(ss.err)
        ELSE Ok([sampleSizes |-> sz.val,
                 chunkOffsets |-> co.val,
                 samplesPerChunk |-> sc.val,
                 timeToSample |-> ts.val,
                 syncSamples |-> IF stbl.stss = <<>> THEN <<>> ELSE <<ss.val>>])

----------------------------------------------------------------------------
(* SampleTableParser.buildChunkToSampleMapping *)

\* samplesPerChunk[entry + 1]?.firstChunk || chunkCount + 1  (entry is 0-based)
nextFirstChunkOf(table, entry, chunkCount) ==
    IF entry + 2 <= Len(table.samplesPerChunk)
       /\ table.samplesPerChunk[entry + 2].firstChunk # 0
    THEN table.samplesPerChunk[entry + 2].firstChunk
    ELSE chunkCount + 1

\* The loop over chunkIndex (0-based); acc is chunkToSamples so far.
RECURSIVE chunkMappingLoop(_, _, _, _, _)
chunkMappingLoop(table, chunkIndex, currentEntry, nextFirstChunk, acc) ==
    LET chunkCount == Len(table.chunkOffsets)
        chunkNumber == chunkIndex + 1
        advance == chunkNumber >= nextFirstChunk
                   /\ currentEntry + 1 < Len(table.samplesPerChunk)
        entry == IF advance THEN currentEntry + 1 ELSE currentEntry
        nfc == IF advance THEN nextFirstChunkOf(table, entry, chunkCount)
               ELSE nextFirstChunk
    IN  IF chunkIndex >= chunkCount THEN acc
        ELSE chunkMappingLoop(table, chunkIndex + 1, entry, nfc,
                 Append(acc, table.samplesPerChunk[entry + 1].samplesPerChunk))

\* A mapping that gives every chunk the samples per chunk of the first run
buildChunkToSampleMappingFirstRun(table) ==
    [i \in 1..Len(table.chunkOffsets) |->
        IF Len(table.samplesPerChunk) = 0 THEN 0
        ELSE table.samplesPerChunk[1].samplesPerChunk]

buildChunkToSampleMapping(table) ==
    LET chunkCount == Len(table.chunkOffsets)
    IN  IF Len(table.samplesPerChunk) = 0
        THEN [i \in 1..chunkCount |-> 0]
        ELSE chunkMappingLoop(table, 0, 0, nextFirstChunkOf(table, 0, chunkCount), <<>>)

----------------------------------------------------------------------------
(* SampleTableParser.buildSampleIndex *)

\* A keyframe test that takes the stss entries for 0-based sample indices
isKeyframeZeroBased(table, sampleIndex) ==
    \/ table.syncSamples = <<>>
    \/ \E k \in 1..Len(table.syncSamples[1]) : table.syncSamples[1][k] = sampleIndex

\* allKeyframes || keyframes.has(sampleIndex + 1)
isKeyframeOf(table, sampleIndex) ==
    \/ table.syncSamples = <<>>
    \/ \E k \in 1..Len(table.syncSamples[1]) : table.syncSamples[1][k] = sampleIndex + 1

\* The accumulator of the two nested loops.
indexStart(table) ==
    [samples |-> <<>>,
     sampleIndex |-> 0,
     currentTime |-> 0,
     timeEntryIndex |-> 0,
     timeEntryRemaining |-> IF Len(table.timeToSample) > 0
                            THEN table.timeToSample[1].count ELSE 0,
     currentDelta |-> IF Len(table.timeToSample) > 0
                      THEN table.timeToSample[1].delta ELSE 0]

\* One pass of the inner loop body: push the sample, then step the clock.
pushSample(table, streamId, trackTimeScale, chunkOffset, sampleOffsetInChunk, st) ==
    LET sampleSize == table.sampleSizes[st.sampleIndex + 1]
        remaining == st.timeEntryRemaining - 1
        advance == remaining = 0 /\ st.timeEntryIndex + 1 < Len(table.timeToSample)
        sample == [offset |-> chunkOffset + sampleOffsetInChunk,
                   size |-> sampleSize,
                   timestamp |-> Rat(st.currentTime * MICROS, trackTimeScale),
                   duration |-> Rat(st.currentDelta * MICROS, trackTimeScale),
                   isKeyframe |-> isKeyframeOf(table, st.sampleIndex),
                   streamId |-> streamId]
    IN  [samples |-> Append(st.samples, sample),
         sampleIndex |-> st.sampleIndex + 1,
         currentTime |-> st.currentTime + st.currentDelta,
         timeEntryIndex |-> IF advance THEN st.timeEntryIndex + 1 ELSE st.timeEntryIndex,
         timeEntryRemaining |-> IF advance
                                THEN table.timeToSample[st.timeEntryIndex + 2].count
                                ELSE remaining,
         currentDelta |-> IF advance
                          THEN table.timeToSample[st.timeEntryIndex + 2].delta
                          ELSE st.currentDelta]

\* An inner loop that leaves out the last sample of every chunk
RECURSIVE sampleLoopOneShort(_, _, _, _, _, _, _, _)
sampleLoopOneShort(table, streamId, trackTimeScale, chunkOffset, samplesInChunk, sampleInChunk, sampleOffsetInChunk, st) ==
    IF sampleInChunk + 1 >= samplesInChunk \/ st.sampleIndex >= Len(table.sampleSizes)
    THEN st
    ELSE sampleLoopOneShort(table, streamId, trackTimeScale, chunkOffset, samplesInChunk,
                    sampleInChunk + 1,
                    sampleOffsetInChunk + table.sampleSizes[st.sampleIndex + 1],
                    pushSample(table, streamId, trackTimeScale, chunkOffset,
                               sampleOffsetInChunk, st))

\* for (sampleInChunk < samplesInChunk) { if (sampleIndex >= sampleCount) break; ... }
RECURSIVE sampleLoop(_, _, _, _, _, _, _, _)
sampleLoop(table, streamId, trackTimeScale, chunkOffset, samplesInChunk, sampleInChunk, sampleOffsetInChunk, st) ==
    IF sampleInChunk >= samplesInChunk \/ st.sampleIndex >= Len(table.sampleSizes)
    THEN st
    ELSE sampleLoop(table, streamId, trackTimeScale, chunkOffset, samplesInChunk,
                    sampleInChunk + 1,
                    sampleOffsetInChunk + table.sampleSizes[st.sampleIndex + 1],
                    pushSample(table, streamId, trackTimeScale, chunkOffset,
                               sampleOffsetInChunk, st))

\* for (chunkIndex < chunkOffsets.length) { ... }
RECURSIVE chunkLoop(_, _, _, _, _, _)
chunkLoop(table, streamId, trackTimeScale, chunkToSamples, chunkIndex, st) ==
    IF chunkIndex >= Len(table.chunkOffsets) THEN st
    ELSE chunkLoop(table, streamId, trackTimeScale, chunkToSamples, chunkIndex + 1,
                   sampleLoop(table, streamId, trackTimeScale,
                              table.chunkOffsets[chunkIndex + 1],
                              chunkToSamples[chunkIndex + 1], 0, 0, st))

buildSampleIndex(table, streamId, trackTimeScale) ==
    IF Len(table.sampleSizes) = 0 THEN <<>>
    ELSE chunkLoop(table, streamId, trackTimeScale,
                   buildChunkToSampleMapping(table), 0, indexStart(table)).samples


----------------------------------------------------------------------------
(* StreamParser *)

\* Math.round(p / q), for p >= 0 and q > 0
roundDiv(p, q) == (2 * p + q) \div (2 * q)

RECURSIVE sumCounts(_), sumDurations(_)
sumCounts(entries) ==
    IF entries = <<>> THEN 0 ELSE entries[1].count + sumCounts(Tail(entries))
sumDurations(entries) ==
    IF entries = <<>> THEN 0
    ELSE entries[1].count * entries[1].delta + sumDurations(Tail(entries))

\* calculateFrameRate: <<>> for null, else the two rates rounded to 3 decimals,
\* held in thousandths.  It reads the stts box itself and throws like parseSTTS.
calculateFrameRate(stbl, trackTimeScale) ==
    LET read == readEntries(stbl.stts)
        entries == read.val
        totalSamples == sumCounts(entries)
        totalDuration == sumDurations(entries)
        commonDelta == entries[1].delta
        isConstantFrameRate == \A i \in 1..Len(entries) : entries[i].delta = commonDelta
    IN  IF stbl.stts.entryCount = 0 THEN Ok(<<>>)
        ELSE IF ~read.ok THEN Fail(read.err)
        ELSE IF totalSamples = 0 \/ totalDuration = 0 THEN Ok(<<>>)
        ELSE Ok(<<[frameRate |-> IF isConstantFrameRate /\ commonDelta > 0
                                 THEN roundDiv(trackTimeScale * 1000, commonDelta)
                                 ELSE roundDiv(totalSamples * trackTimeScale * 1000,
                                               totalDuration),
                   avgFrameRate |-> roundDiv(totalSamples * trackTimeScale * 1000,
                                             totalDuration)]>>)

\* parseTrack: Ok(<<>>) for null, Ok(<<stream>>) for a stream context.
parseTrack(trak, trackId) ==
    LET streamType == IF trak.hdlr = "vide" THEN "video" ELSE "audio"
        rates == calculateFrameRate(trak.stbl, trak.mdhd.timeScale)
        stream == [id |-> trackId,
                   type |-> streamType,
                   timeScale |-> trak.mdhd.timeScale,
                   duration |-> trak.mdhd.duration,
                   frameRate |-> <<>>,
                   avgFrameRate |-> <<>>,
                   bitRate |-> <<>>,
                   avgBitRate |-> <<>>]
    IN  IF trak.hdlr \notin {"vide", "soun"} THEN Ok(<<>>)
        ELSE IF streamType = "audio" THEN Ok(<<stream>>)
        ELSE IF ~rates.ok THEN Fail(rates.err)
        ELSE IF rates.val = <<>> THEN Ok(<<stream>>)
        ELSE Ok(<<[stream EXCEPT !.frameRate = <<rates.val[1].frameRate>>,
                                 !.avgFrameRate = <<rates.val[1].avgFrameRate>>]>>)

----------------------------------------------------------------------------
(* MOVDemuxer.init *)

\* An insertion that puts s in front of the elements of equal timestamp
insertSampleBeforeEqual(sorted, s) ==
    LET k == Cardinality({i \in 1..Len(sorted) : RatLT(sorted[i].timestamp, s.timestamp)})
    IN  SubSeq(sorted, 1, k) \o <<s>> \o SubSeq(sorted, k + 1, Len(sorted))

\* Array.prototype.sort((a, b) => a.timestamp - b.timestamp): a stable sort.
\* insertSample puts s behind every element whose timestamp is not larger.
insertSample(sorted, s) ==
    LET k == Cardinality({i \in 1..Len(sorted) : RatLE(sorted[i].timestamp, s.timestamp)})
    IN  SubSeq(sorted, 1, k) \o <<s>> \o SubSeq(sorted, k + 1, Len(sorted))

RECURSIVE sortSamples(_)
sortSamples(list) ==
    IF list = <<>> THEN <<>>
    ELSE insertSample(sortSamples(SubSeq(list, 1, Len(list) - 1)), list[Len(list)])

\* stream.type is kept by the options
\* A filter that keeps a stream when either kind is enabled
keptByEitherOption(stream, opts) == opts.enableVideo \/ opts.enableAudio

keptByOptions(stream, opts) ==
    \/ stream.type = "video" /\ opts.enableVideo
    \/ stream.type = "audio" /\ opts.enableAudio

\* The loop over trakBoxes.entries(), i 0-based; ctx holds streams and samples,
\* and thrown = <<e>> once a parse step has thrown.
RECURSIVE trackLoop(_, _, _, _)
trackLoop(traks, opts, i, ctx) ==
    IF i >= Len(traks) \/ ctx.thrown # <<>> THEN ctx
    ELSE
      LET parsed == parseTrack(traks[i + 1], i)
          table == parseSampleTable(traks[i + 1].stbl)
      IN  IF ~parsed.ok
          THEN [ctx EXCEPT !.thrown = <<parsed.err>>]
          ELSE IF parsed.val = <<>> \/ ~keptByOptions(parsed.val[1], opts)
          THEN trackLoop(traks, opts, i + 1, ctx)
          ELSE IF ~table.ok
          THEN [ctx EXCEPT !.streams = Append(@, parsed.val[1]),
                           !.thrown = <<table.err>>]
          ELSE trackLoop(traks, opts, i + 1,
                   [ctx EXCEPT !.streams = Append(@, parsed.val[1]),
                               !.samples = @ \o buildSampleIndex(table.val, i,
                                                   parsed.val[1].timeScale)])

\* calculateBitRates
RECURSIVE totalSize(_)
totalSize(list) == IF list = <<>> THEN 0 ELSE list[1].size + totalSize(Tail(list))

\* bitRateOf counting bytes instead of bits
bitRateOfBytes(stream, list) ==
    LET streamSamples == SelectSeq(list, LAMBDA s : s.streamId = stream.id)
    IN  IF Len(streamSamples) = 0 \/ stream.duration <= 0
        THEN stream
        ELSE LET avgBitRate == roundDiv(totalSize(streamSamples) * stream.timeScale,
                                        stream.duration)
             IN  [stream EXCEPT !.avgBitRate = <<avgBitRate>>, !.bitRate = <<avgBitRate>>]

bitRateOf(stream, list) ==
    LET streamSamples == SelectSeq(list, LAMBDA s : s.streamId = stream.id)
    IN  IF Len(streamSamples) = 0 \/ stream.duration <= 0
        THEN stream
        ELSE LET avgBitRate == roundDiv(totalSize(streamSamples) * 8 * stream.timeScale,
                                        stream.duration)
             IN  [stream EXCEPT !.avgBitRate = <<avgBitRate>>, !.bitRate = <<avgBitRate>>]

calculateBitRates(strs, list) == [i \in 1..Len(strs) |-> bitRateOf(strs[i], list)]

\* The end of init(): mdat, the sort, the bit rates.
initFinish(f, c2) ==
    LET c3 == IF f.mdat = <<>> THEN c2
              ELSE [c2 EXCEPT !.mdatOffset = f.mdat[1].offset + BOX_HEADER,
                              !.mdatSize = f.mdat[1].size - BOX_HEADER]
    IN  IF c2.thrown # <<>> THEN c2
        ELSE CHOOSE c4 \in {[c3 EXCEPT !.samples = sorted,
                                       !.streams = calculateBitRates(c3.streams, sorted)] :
                               sorted \in {sortSamples(c3.samples)}} : TRUE

\* init() run on the facade state ctx = [streams, samples, timeScale, duration,
\* mdatOffset, mdatSize, thrown]: the state it leaves, with what it threw.
init(f, opts, ctx) ==
    IF f.ftyp # <<>> /\ f.ftyp[1].truncated
    THEN [ctx EXCEPT !.thrown = <<RangeError>>]
    ELSE IF f.moov = <<>>
    THEN [ctx EXCEPT !.thrown = <<Error("No moov box found")>>]
    ELSE IF f.moov[1].mvhd # <<>> /\ f.moov[1].mvhd[1].truncated
    THEN [ctx EXCEPT !.thrown = <<RangeError>>]
    ELSE
      LET c1 == IF f.moov[1].mvhd = <<>> THEN ctx
                ELSE [ctx EXCEPT !.timeScale = f.moov[1].mvhd[1].timeScale,
                                 !.duration = f.moov[1].mvhd[1].duration]
      IN  CHOOSE c4 \in {initFinish(f, c2) :
                            c2 \in {trackLoop(f.moov[1].traks, opts, 0, c1)}} : TRUE

----------------------------------------------------------------------------
(* MOVDemuxer: the cursor operations *)

\* A getNextSample that moves the index on even when it has nothing to return
getNextSamplePastEnd(list, index) ==
    IF index >= Len(list)
    THEN [ret |-> Null, index |-> index + 1]
    ELSE [ret |-> Returned("sample", <<list[index + 1]>>), index |-> index + 1]

\* getNextSample on (samples, currentSampleIndex): what it returns and the
\* index it leaves.
getNextSample(list, index) ==
    IF index >= Len(list)
    THEN [ret |-> Null, index |-> index]
    ELSE [ret |-> Returned("sample", <<list[index + 1]>>), index |-> index + 1]

\* getSampleData: new Uint8Array(buffer, mdatOffset + sample.offset, sample.size),
\* a view given by its first byte and its length; the constructor throws a
\* RangeError when the view does not lie inside the buffer.
getSampleData(bufLen, mdatOff, sample) ==
    LET absoluteOffset == mdatOff + sample.offset
    IN  IF absoluteOffset > bufLen \/ absoluteOffset + sample.size > bufLen
        THEN Thrown(RangeError)
        ELSE Returned("data", <<absoluteOffset, sample.size>>)

\* seek: the scan for (i < samples.length), i 0-based, with its break.
RECURSIVE seekLoop(_, _, _, _)
seekLoop(list, timestamp, i, bestIndex) ==
    IF i >= Len(list) THEN bestIndex
    ELSE IF RatGTInt(list[i + 1].timestamp, timestamp) THEN bestIndex
    ELSE seekLoop(list, timestamp, i + 1,
                  IF list[i + 1].isKeyframe THEN i ELSE bestIndex)

\* A seek that takes the last sample at or before the target, keyframe or not
seekAnySample(list, timestamp) ==
    LET K == {i \in 0..(Len(list) - 1) : ~RatGTInt(list[i + 1].timestamp, timestamp)}
    IN  IF K = {} THEN 0 ELSE CHOOSE i \in K : \A j \in K : j <= i

\* A seek that, for a target past the last sample, leaves the index at the end
seekPastEnd(list, timestamp) ==
    IF list # <<>> /\ ~RatGTInt(list[Len(list)].timestamp, timestamp)
    THEN Len(list)
    ELSE seekLoop(list, timestamp, 0, 0)

seek(list, timestamp) == seekLoop(list, timestamp, 0, 0)

\* reset: the index it leaves
reset(index) == 0

\* getInfo: the record it returns
getInfo(strs, list, ts, dur) ==
    Returned("info", <<[duration |-> dur, timeScale |-> ts, streams |-> strs,
                        sampleCount |-> Len(list)]>>)

\* getFrameRateInfo: one entry per video stream, in the order of streams
getFrameRateInfo(strs) ==
    LET video == SelectSeq(strs, LAMBDA st : st.type = "video")
    IN  Returned("frameRateInfo",
                 [i \in 1..Len(video) |->
                     [streamId |-> video[i].id,
                      frameRate |-> video[i].frameRate,
                      avgFrameRate |-> video[i].avgFrameRate,
                      isConstant |-> video[i].frameRate = video[i].avgFrameRate]])

\* bitRate ? Math.round(bitRate / 1000) : undefined
kbps(rate) == IF rate = <<>> \/ rate[1] = 0 THEN <<>> ELSE <<roundDiv(rate[1], 1000)>>

\* getBitRateInfo: one entry per stream
getBitRateInfo(strs) ==
    Returned("bitRateInfo",
             [i \in 1..Len(strs) |->
                 [streamId |-> strs[i].id,
                  type |-> strs[i].type,
                  bitRate |-> strs[i].bitRate,
                  avgBitRate |-> strs[i].avgBitRate,
                  bitRateKbps |-> kbps(strs[i].bitRate),
                  avgBitRateKbps |-> kbps(strs[i].avgBitRate)]])

\* A readFrame that looks the stream up by the position after the sample's id
readFrameOffByOne(list, index, strs, bufLen, mdatOff) ==
    LET next == getNextSample(list, index)
        sample == next.ret.val[1]
        data == getSampleData(bufLen, mdatOff, sample)
        found == {i \in 1..Len(strs) : strs[i].id = sample.streamId + 1}
    IN  IF next.ret = Null THEN [ret |-> Null, index |-> next.index]
        ELSE IF data.kind = "throw" THEN [ret |-> data, index |-> next.index]
        ELSE IF found = {} THEN [ret |-> Null, index |-> next.index]
        ELSE [ret |-> Returned("frame",
                       <<[data |-> data.val, timestamp |-> sample.timestamp,
                          duration |-> sample.duration, isKeyframe |-> sample.isKeyframe,
                          streamId |-> sample.streamId,
                          type |-> strs[CHOOSE i \in found : \A j \in found : i <= j].type]>>),
              index |-> next.index]

\* readFrame on (samples, currentSampleIndex, streams, buffer, mdatOffset): what
\* it returns or throws and the index it leaves. A decoder that throws on the
\* frame is caught and logged, so decoding changes neither.
readFrame(list, index, strs, bufLen, mdatOff) ==
    LET next == getNextSample(list, index)
        sample == next.ret.val[1]
        data == getSampleData(bufLen, mdatOff, sample)
        found == {i \in 1..Len(strs) : strs[i].id = sample.streamId}
    IN  IF next.ret = Null THEN [ret |-> Null, index |-> next.index]
        ELSE IF data.kind = "throw" THEN [ret |-> data, index |-> next.index]
        ELSE IF found = {} THEN [ret |-> Null, index |-> next.index]
        ELSE [ret |-> Returned("frame",
                       <<[data |-> data.val, timestamp |-> sample.timestamp,
                          duration |-> sample.duration, isKeyframe |-> sample.isKeyframe,
                          streamId |-> sample.streamId,
                          type |-> strs[CHOOSE i \in found : \A j \in found : i <= j].type]>>),
              index |-> next.index]

\* WebCodecsIntegration.close on [videoDecoder, audioDecoder], each "absent"
\* (undefined), "configured" or "closed" (the decoder's own state): it closes
\* and drops the video decoder, then the audio decoder. Closing a decoder
\* whose state is "closed" throws, which leaves it and what follows in place.
closeDecoders(d) ==
    IF d.videoDecoder = "closed" THEN [decoders |-> d, thrown |-> <<InvalidStateError>>]
    ELSE IF d.audioDecoder = "closed"
    THEN [decoders |-> [d EXCEPT !.videoDecoder = "absent"],
          thrown |-> <<InvalidStateError>>]
    ELSE [decoders |-> [videoDecoder |-> "absent", audioDecoder |-> "absent"],
          thrown |-> <<>>]

\* close on (samples, currentSampleIndex, webcodecs): the state it leaves,
\* with what it threw. The samples and the index are dropped after the
\* decoders are.
close(list, index, wc) ==
    IF wc = <<>>
    THEN [samples |-> <<>>, index |-> 0, webcodecs |-> <<>>, thrown |-> <<>>]
    ELSE LET c == closeDecoders(wc[1])
         IN  IF c.thrown # <<>>
             THEN [samples |-> list, index |-> index, webcodecs |-> <<c.decoders>>,
                   thrown |-> c.thrown]
             ELSE [samples |-> <<>>, index |-> 0, webcodecs |-> <<>>, thrown |-> <<>>]

\* initWebCodecs: a decoder per kind that createConfig found a stream for
initWebCodecs(strs) ==
    <<[videoDecoder |-> IF \E i \in 1..Len(strs) : strs[i].type = "video"
                        THEN "configured" ELSE "absent",
       audioDecoder |-> IF \E i \in 1..Len(strs) : strs[i].type = "audio"
                        THEN "configured" ELSE "absent"]>>

\* The decoder reports an error through the error callback it was built with:
\* it has closed itself by then, and the integration keeps its reference.
decoderError(wc, which) ==
    IF which = "video" THEN <<[wc[1] EXCEPT !.videoDecoder = "closed"]>>
    ELSE <<[wc[1] EXCEPT !.audioDecoder = "closed"]>>


----------------------------------------------------------------------------
(* Input files *)

\* A table box whose payload holds the entries its header declares
Box(entries) == [entryCount |-> Len(entries), entries |-> entries, uniformSize |-> 0]
\* The same box cut short: one declared entry is missing from the payload
Truncated(entries) == [entryCount |-> Len(entries) + 1, entries |-> entries, uniformSize |-> 0]

Stbl(sizes, offsets, stsc, stts, stss) ==
    [stsz |-> Box(sizes), stco |-> Box(offsets), stsc |-> Box(stsc),
     stts |-> Box(stts), stss |-> stss]

\* A track of n samples of one size in one chunk, one sample every delta ticks
Trak(hdlr, ts, n, size, chunkOffset, delta, stss) ==
    [hdlr |-> hdlr,
     mdhd |-> [timeScale |-> ts, duration |-> n * delta],
     stbl |-> Stbl([i \in 1..n |-> size], <<chunkOffset>>,
                   <<[firstChunk |-> 1, samplesPerChunk |-> n]>>,
                   <<[count |-> n, delta |-> delta]>>, stss)]

Mvhd == [truncated |-> FALSE, timeScale |-> 600, duration |-> 1200]
Moov(mvhd, traks) == [mvhd |-> mvhd, traks |-> traks]
Mdat(offset, size) == [offset |-> offset, size |-> size]

File(bufLen, ftyp, moov, mdat) ==
    [bufLen |-> bufLen, ftyp |-> ftyp, moov |-> moov, mdat |-> mdat]

Options == [enableVideo : BOOLEAN, enableAudio : BOOLEAN]
DefaultOptions == [enableVideo |-> TRUE, enableAudio |-> TRUE]
Input(f, opts) == [file |-> f, options |-> opts]

\* Sequences of at most n elements of S
SeqUpTo(S, n) == UNION {[1..k -> S] : k \in 0..n}

\* The media data box leads the file; every chunk starts at its first payload byte.
PayloadStart == BOX_HEADER
LeadingMdat == <<Mdat(0, BOX_HEADER + 2 * MaxSamples)>>
MediaBufLen == 2 * (BOX_HEADER + 2 * MaxSamples)

\* Tracks of n samples: video with one sync sample, audio on another time
\* scale, and a track of a handler the demuxer does not keep
MediaTracksOf(n) ==
    {Trak("vide", 1, n, 2, PayloadStart, 1, <<Box(<<1>>)>>),
     Trak("soun", 2, n, 2, PayloadStart, 1, <<>>),
     Trak("hint", 1, n, 2, PayloadStart, 1, <<>>)}

\* Files of up to MaxTracks tracks of one sample, of every handler in every
\* order
MediaTracks == MediaTracksOf(1)
MediaInputs ==
    {Input(File(MediaBufLen, <<>>, <<Moov(<<Mvhd>>, traks)>>, LeadingMdat),
           DefaultOptions) :
        traks \in SeqUpTo(MediaTracks, MaxTracks)}

\* Files of two tracks of two samples, video and audio in either order or two
\* of one kind, under every setting of the options
OptionInputs ==
    {Input(File(MediaBufLen, <<>>, <<Moov(<<Mvhd>>, traks)>>, LeadingMdat), opts) :
        traks \in [1..2 -> {t \in MediaTracksOf(2) : t.hdlr # "hint"}],
        opts \in Options}

\* Files of one video track: sample counts, time scales, deltas, every kind of stss
SyncTables(n) ==
    {<<>>, <<Box(<<>>)>>, <<Box(<<1, n>>)>>} \cup {<<Box(<<k>>)>> : k \in 1..(n + 1)}

TimingInputs ==
    {Input(File(MediaBufLen + 2, <<>>,
                <<Moov(<<Mvhd>>, <<Trak("vide", ts, n, 2, PayloadStart, delta, ss)>>)>>,
                LeadingMdat), DefaultOptions) :
        ts \in {3}, n \in {0, MaxSamples + 1}, delta \in {0, 1},
        ss \in SyncTables(MaxSamples)}

\* Files whose chunk offsets, sample sizes and mdat position are arbitrary
LayoutInputs ==
    {Input(File(3 * BOX_HEADER, <<>>,
                <<Moov(<<Mvhd>>, <<Trak("vide", 1, MaxSamples, size, off, 1, <<>>)>>)>>,
                mdat), DefaultOptions) :
        size \in {1, 2 * BOX_HEADER}, off \in {0, 4, 8, 16, 24},
        mdat \in {<<>>, <<Mdat(0, 2 * BOX_HEADER)>>, <<Mdat(BOX_HEADER, 2 * BOX_HEADER)>>}}

\* Files with and without ftyp, moov and mvhd
GoodTrack == Trak("vide", 1, MaxSamples, 2, PayloadStart, 1, <<>>)
StructureInputs ==
    {Input(File(MediaBufLen, ftyp, moov, LeadingMdat), DefaultOptions) :
        ftyp \in {<<>>, <<[truncated |-> FALSE]>>, <<[truncated |-> TRUE]>>},
        moov \in {<<>>} \cup
                 {<<Moov(mvhd, <<GoodTrack>>)>> :
                     mvhd \in {<<>>, <<Mvhd>>, <<[Mvhd EXCEPT !.truncated = TRUE]>>}}}

\* Files with one table box cut short, alone, before or behind a complete track
CutTable(trak, which) ==
    [trak EXCEPT !.stbl =
        CASE which = "stsz" -> [@ EXCEPT !.stsz = Truncated(@.entries)]
          [] which = "stco" -> [@ EXCEPT !.stco = Truncated(@.entries)]
          [] which = "stsc" -> [@ EXCEPT !.stsc = Truncated(@.entries)]
          [] which = "stts" -> [@ EXCEPT !.stts = Truncated(@.entries)]
          [] which = "stss" -> [@ EXCEPT !.stss = <<Truncated(<<1>>)>>]]

TruncatedInputs ==
    {Input(File(MediaBufLen, <<>>, <<Moov(<<Mvhd>>, traks)>>, LeadingMdat), DefaultOptions) :
        traks \in UNION {
            {<<cut>>, <<GoodTrack, cut>>, <<cut, GoodTrack>>} :
                cut \in {CutTable(Trak(h, 1, MaxSamples, 2, PayloadStart, 1, <<>>), which) :
                            h \in {"vide", "soun"},
                            which \in {"stsz", "stco", "stsc", "stts", "stss"}}}}

\* A video track given by its tables
TrakOf(ts, dur, sizes, offsets, stsc, stts) ==
    [hdlr |-> "vide",
     mdhd |-> [timeScale |-> ts, duration |-> dur],
     stbl |-> Stbl(sizes, offsets, stsc, stts, <<>>)]

StscEntry(firstChunk, samplesPerChunk) ==
    [firstChunk |-> firstChunk, samplesPerChunk |-> samplesPerChunk]

\* stsc tables: none, one run, two runs, runs that hold fewer or more samples
\* than stsz declares, and tables whose first_chunk values do not start at 1
\* or do not increase
StscTables ==
    {<<>>,
     <<StscEntry(1, 1)>>,
     <<StscEntry(1, 2)>>,
     <<StscEntry(1, MaxSamples + 1)>>,
     <<StscEntry(1, 1), StscEntry(MaxChunks, 2)>>,
     <<StscEntry(1, 2), StscEntry(2, 1)>>,
     <<StscEntry(2, 1)>>,
     <<StscEntry(1, 1), StscEntry(1, 2)>>}

\* Files of one video track: every stsc table over 1..MaxChunks chunks and
\* 1 or MaxSamples+1 samples of sizes 1, 2, 3, ...
ChunkInputs ==
    {Input(File(BOX_HEADER * (MaxChunks + 2), <<>>,
                <<Moov(<<Mvhd>>,
                       <<TrakOf(1, n, [i \in 1..n |-> i], [c \in 1..k |-> BOX_HEADER * c],
                                stsc, <<[count |-> n, delta |-> 1]>>)>>)>>,
                LeadingMdat), DefaultOptions) :
        n \in {1, MaxSamples + 1}, k \in 1..MaxChunks, stsc \in StscTables}

\* stts tables of two samples: one run, two runs of one delta, two runs of two
\* deltas, runs of delta 0, runs of no sample before and between the others,
\* and no run
SttsTables ==
    {<<>>,
     <<[count |-> 2, delta |-> 1]>>,
     <<[count |-> 2, delta |-> 2]>>,
     <<[count |-> 1, delta |-> 1], [count |-> 1, delta |-> 1]>>,
     <<[count |-> 1, delta |-> 1], [count |-> 1, delta |-> 2]>>,
     <<[count |-> 1, delta |-> 2], [count |-> 1, delta |-> 1]>>,
     <<[count |-> 2, delta |-> 0]>>,
     <<[count |-> 0, delta |-> 2], [count |-> 2, delta |-> 1]>>,
     <<[count |-> 1, delta |-> 1], [count |-> 0, delta |-> 2], [count |-> 1, delta |-> 1]>>}

\* Files of one video track of two 1-byte samples: every stts table, two time
\* scales, the duration mdhd declares being that of the stts table or 0
RateInputs ==
    UNION {{Input(File(MediaBufLen, <<>>,
                       <<Moov(<<Mvhd>>,
                              <<TrakOf(ts, dur, <<1, 1>>, <<PayloadStart>>,
                                       <<StscEntry(1, 2)>>, stts)>>)>>,
                       LeadingMdat), DefaultOptions) :
               ts \in {1, 2}, dur \in {0, sumDurations(stts)}} :
           stts \in SttsTables}

Inputs == MediaInputs \cup OptionInputs \cup TimingInputs \cup LayoutInputs
          \cup StructureInputs \cup TruncatedInputs
          \cup ChunkInputs \cup RateInputs

\* seek targets in microseconds: before the start, then every half second
Targets == {-1} \cup {k * (MICROS \div 2) : k \in 0..MaxSeekStep}

----------------------------------------------------------------------------
(* The facade as a state machine *)

Call(op, arg) == [op |-> op, arg |-> arg]

Init ==
    /\ \E in \in Inputs : file = in.file /\ options = in.options
    /\ streams = <<>>
    /\ timeScale = DEFAULT_TIME_SCALE
    /\ duration = DEFAULT_DURATION
    /\ mdatOffset = 0
    /\ mdatSize = 0
    /\ samples = <<>>
    /\ currentSampleIndex = 0
    /\ webcodecs = <<>>
    /\ lastOp = Call("new", 0)
    /\ result = Void
    /\ lifecycle = "Unparsed"
    /\ inits = 0
    /\ reader = <<>>
    /\ parser = <<>>
    /\ calls = <<>>
    /\ decoded = <<>>

CallInit ==
    /\ inits < MaxInits
    /\ \E r \in {init(file, options,
                      [streams |-> streams, samples |-> samples,
                       timeScale |-> timeScale, duration |-> duration,
                       mdatOffset |-> mdatOffset, mdatSize |-> mdatSize,
                       thrown |-> <<>>])} :
           /\ streams' = r.streams
           /\ samples' = r.samples
           /\ timeScale' = r.timeScale
           /\ duration' = r.duration
           /\ mdatOffset' = r.mdatOffset
           /\ mdatSize' = r.mdatSize
           /\ result' = IF r.thrown = <<>> THEN Void ELSE Thrown(r.thrown[1])
           /\ lifecycle' = IF lifecycle = "Unparsed" /\ r.thrown = <<>>
                           THEN "Initialised" ELSE lifecycle
    /\ inits' = inits + 1
    /\ lastOp' = Call("init", 0)
    /\ UNCHANGED << reader, parser, calls, decoded >>
    /\ UNCHANGED << file, options, currentSampleIndex, webcodecs >>

CallInitWebCodecs ==
    /\ webcodecs' = initWebCodecs(streams)
    /\ lastOp' = Call("initWebCodecs", 0)
    /\ result' = Void
    /\ UNCHANGED << reader, parser, calls, decoded >>
    /\ UNCHANGED << file, options, streams, timeScale, duration, mdatOffset, mdatSize,
                    samples, currentSampleIndex, lifecycle, inits >>

CallGetNextSample ==
    /\ LET r == getNextSample(samples, currentSampleIndex)
       IN  /\ result' = r.ret
           /\ currentSampleIndex' = r.index
    /\ lastOp' = Call("getNextSample", 0)
    /\ UNCHANGED << reader, parser, calls, decoded >>
    /\ UNCHANGED << file, options, streams, timeScale, duration, mdatOffset, mdatSize,
                    samples, webcodecs, lifecycle, inits >>

\* The caller asks for the bytes of the sample it was just handed.
CallGetSampleData ==
    /\ result.kind = "sample"
    /\ result' = getSampleData(file.bufLen, mdatOffset, result.val[1])
    /\ lastOp' = Call("getSampleData", currentSampleIndex - 1)
    /\ UNCHANGED << reader, parser, calls, decoded >>
    /\ UNCHANGED << file, options, streams, timeScale, duration, mdatOffset, mdatSize,
                    samples, currentSampleIndex, webcodecs, lifecycle, inits >>

CallSeek(t) ==
    /\ currentSampleIndex' = seek(samples, t)
    /\ lastOp' = Call("seek", t)
    /\ result' = Void
    /\ UNCHANGED << reader, parser, calls, decoded >>
    /\ UNCHANGED << file, options, streams, timeScale, duration, mdatOffset, mdatSize,
                    samples, webcodecs, lifecycle, inits >>

\* A reset that drops the sample list along with the index
CallResetDroppingSamples ==
    /\ currentSampleIndex' = reset(currentSampleIndex)
    /\ samples' = <<>>
    /\ lastOp' = Call("reset", 0)
    /\ result' = Void
    /\ UNCHANGED << reader, parser, calls, decoded >>
    /\ UNCHANGED << file, options, streams, timeScale, duration, mdatOffset, mdatSize,
                    webcodecs, lifecycle, inits >>

CallReset ==
    /\ currentSampleIndex' = reset(currentSampleIndex)
    /\ lastOp' = Call("reset", 0)
    /\ result' = Void
    /\ UNCHANGED << reader, parser, calls, decoded >>
    /\ UNCHANGED << file, options, streams, timeScale, duration, mdatOffset, mdatSize,
                    samples, webcodecs, lifecycle, inits >>

CallClose ==
    /\ LET r == close(samples, currentSampleIndex, webcodecs)
       IN  /\ samples' = r.samples
           /\ currentSampleIndex' = r.index
           /\ webcodecs' = r.webcodecs
           /\ result' = IF r.thrown = <<>> THEN Void ELSE Thrown(r.thrown[1])
           /\ lifecycle' = IF r.thrown = <<>> THEN "Closed" ELSE lifecycle
    /\ lastOp' = Call("close", 0)
    /\ UNCHANGED << reader, parser, calls, decoded >>
    /\ UNCHANGED << file, options, streams, timeScale, duration, mdatOffset, mdatSize,
                    inits >>

CallReadFrame ==
    /\ \E r \in {readFrame(samples, currentSampleIndex, streams, file.bufLen, mdatOffset)} :
           /\ result' = r.ret
           /\ currentSampleIndex' = r.index
    /\ lastOp' = Call("readFrame", 0)
    /\ UNCHANGED << reader, parser, calls, decoded >>
    /\ UNCHANGED << file, options, streams, timeScale, duration, mdatOffset, mdatSize,
                    samples, webcodecs, lifecycle, inits >>

CallGetInfo ==
    /\ result' = getInfo(streams, samples, timeScale, duration)
    /\ lastOp' = Call("getInfo", 0)
    /\ UNCHANGED << reader, parser, calls, decoded >>
    /\ UNCHANGED << file, options, streams, timeScale, duration, mdatOffset, mdatSize,
                    samples, currentSampleIndex, webcodecs, lifecycle, inits >>

CallGetFrameRateInfo ==
    /\ result' = getFrameRateInfo(streams)
    /\ lastOp' = Call("getFrameRateInfo", 0)
    /\ UNCHANGED << reader, parser, calls, decoded >>
    /\ UNCHANGED << file, options, streams, timeScale, duration, mdatOffset, mdatSize,
                    samples, currentSampleIndex, webcodecs, lifecycle, inits >>

CallGetBitRateInfo ==
    /\ result' = getBitRateInfo(streams)
    /\ lastOp' = Call("getBitRateInfo", 0)
    /\ UNCHANGED << reader, parser, calls, decoded >>
    /\ UNCHANGED << file, options, streams, timeScale, duration, mdatOffset, mdatSize,
                    samples, currentSampleIndex, webcodecs, lifecycle, inits >>

\* The platform closes a configured decoder on an error and calls back.
DecoderError(which) ==
    /\ webcodecs # <<>>
    /\ IF which = "video" THEN webcodecs[1].videoDecoder = "configured"
                          ELSE webcodecs[1].audioDecoder = "configured"
    /\ webcodecs' = decoderError(webcodecs, which)
    /\ lastOp' = Call("decoderError", 0)
    /\ UNCHANGED << reader, parser, calls, decoded >>
    /\ UNCHANGED << file, options, streams, timeScale, duration, mdatOffset, mdatSize,
                    samples, currentSampleIndex, result, lifecycle, inits >>

Next ==
    \/ CallInit
    \/ CallInitWebCodecs
    \/ CallGetNextSample
    \/ CallGetSampleData
    \/ \E t \in Targets : CallSeek(t)
    \/ CallReset
    \/ CallClose
    \/ CallReadFrame
    \/ CallGetInfo
    \/ CallGetFrameRateInfo
    \/ CallGetBitRateInfo
    \/ \E which \in {"video", "audio"} : DecoderError(which)

Spec == Init /\ [][Next]_vars

----------------------------------------------------------------------------
(* The codec tables: fourcc to codec string, as the decoder configuration
   maps it and as MOVUtils.getCodecName maps it *)

\* String.prototype.toLowerCase on the fourccs the model feeds: those with an
\* upper-case letter are listed, any other fourcc is its own lower case.
toLowerCase(fourcc) ==
    CASE fourcc = "AVC1" -> "avc1"
      [] fourcc = "Hev1" -> "hev1"
      [] fourcc = "VP09" -> "vp09"
      [] fourcc = "Opus" -> "opus"
      [] fourcc = "fLaC" -> "flac"
      [] fourcc = "FLAC" -> "flac"
      [] fourcc = "MP4A" -> "mp4a"
      [] fourcc = "NONE" -> "none"
      [] OTHER -> fourcc

\* codecMap of mapVideoCodec
mapVideoCodecMap ==
       ("avc1" :> "avc1")
    @@ ("avc3" :> "avc1")
    @@ ("h264" :> "avc1")
    @@ ("hev1" :> "hev1")
    @@ ("hvc1" :> "hvc1")
    @@ ("hevc" :> "hev1")
    @@ ("vp08" :> "vp8")
    @@ ("vp80" :> "vp8")
    @@ ("vp09" :> "vp9")
    @@ ("vp90" :> "vp9")
    @@ ("av01" :> "av01")
    @@ ("mp4v" :> "mp4v.20.9")
    @@ ("mjpa" :> "mjpeg")
    @@ ("mjpb" :> "mjpeg")
    @@ ("mjpg" :> "mjpeg")
    @@ ("apch" :> "prores")
    @@ ("apcn" :> "prores")
    @@ ("apcs" :> "prores")
    @@ ("apco" :> "prores")
    @@ ("ap4h" :> "prores")

\* codecMap of mapAudioCodec
mapAudioCodecMap ==
       ("mp4a" :> "mp4a.40.2")
    @@ ("aac " :> "mp4a.40.2")
    @@ ("Opus" :> "opus")
    @@ ("opus" :> "opus")
    @@ ("mp3 " :> "mp3")
    @@ (".mp3" :> "mp3")
    @@ ("fLaC" :> "flac")
    @@ ("flac" :> "flac")
    @@ ("vorb" :> "vorbis")
    @@ ("lpcm" :> "pcm-s16")
    @@ ("sowt" :> "pcm-s16")
    @@ ("twos" :> "pcm-s16")
    @@ ("in24" :> "pcm-s24")
    @@ ("in32" :> "pcm-s32")
    @@ ("fl32" :> "pcm-f32")
    @@ ("fl64" :> "pcm-f64")

VIDEO_CODECS ==
       ("avc1" :> "avc1.420029")
    @@ ("avc3" :> "avc1.420029")
    @@ ("h264" :> "avc1.420029")
    @@ ("hev1" :> "hev1.1.6.L93.B0")
    @@ ("hvc1" :> "hvc1.1.6.L93.B0")
    @@ ("hevc" :> "hev1.1.6.L93.B0")
    @@ ("vp08" :> "vp8")
    @@ ("vp80" :> "vp8")
    @@ ("vp09" :> "vp9")
    @@ ("vp90" :> "vp9")
    @@ ("av01" :> "av01.0.01M.08")
    @@ ("mp4v" :> "mp4v.20.9")
    @@ ("xvid" :> "mp4v.20.9")
    @@ ("mjpa" :> "mjpeg")
    @@ ("mjpb" :> "mjpeg")
    @@ ("mjpg" :> "mjpeg")
    @@ ("jpeg" :> "mjpeg")
    @@ ("apch" :> "prores")
    @@ ("apcn" :> "prores")
    @@ ("apcs" :> "prores")
    @@ ("apco" :> "prores")
    @@ ("ap4h" :> "prores")
    @@ ("ap4x" :> "prores")

AUDIO_CODECS ==
       ("mp4a" :> "mp4a.40.2")
    @@ ("aac " :> "mp4a.40.2")
    @@ ("Opus" :> "opus")
    @@ ("opus" :> "opus")
    @@ ("mp3 " :> "mp3")
    @@ (".mp3" :> "mp3")
    @@ ("mpeg" :> "mp3")
    @@ ("fLaC" :> "flac")
    @@ ("flac" :> "flac")
    @@ ("vorb" :> "vorbis")
    @@ ("lpcm" :> "pcm-s16")
    @@ ("sowt" :> "pcm-s16")
    @@ ("twos" :> "pcm-s16")
    @@ ("in24" :> "pcm-s24")
    @@ ("in32" :> "pcm-s32")
    @@ ("fl32" :> "pcm-f32")
    @@ ("fl64" :> "pcm-f64")
    @@ ("raw " :> "pcm-s16")
    @@ ("NONE" :> "pcm-s16")

\* codecMap[key], undefined as <<>>
lookup(codecMap, key) == IF key \in DOMAIN codecMap THEN <<codecMap[key]>> ELSE <<>>

mapVideoCodec(fourcc) ==
    LET codec == lookup(mapVideoCodecMap, toLowerCase(fourcc))
    IN  IF codec = <<>> THEN fourcc ELSE codec[1]

mapAudioCodec(fourcc) ==
    LET codec == lookup(mapAudioCodecMap, fourcc)
    IN  IF codec = <<>> THEN fourcc ELSE codec[1]

getCodecName(fourcc, type) ==
    LET codecMap == IF type = "video" THEN VIDEO_CODECS ELSE AUDIO_CODECS
        codec == lookup(codecMap, fourcc)
    IN  IF codec = <<>> THEN fourcc ELSE codec[1]

\* The fourccs fed to the mappers: every key of the four tables, spellings of
\* listed fourccs in another case, and fourccs no table lists
Fourccs ==
    DOMAIN mapVideoCodecMap \cup DOMAIN mapAudioCodecMap
    \cup DOMAIN VIDEO_CODECS \cup DOMAIN AUDIO_CODECS
    \cup {"AVC1", "Hev1", "VP09", "FLAC", "MP4A"}
    \cup {"dvh1", "ac-3", "alac", "zzzz"}

\* The mappers are applied on a demuxer as it is constructed, here over a
\* file of one complete video track
GoodFile == File(MediaBufLen, <<>>, <<Moov(<<Mvhd>>, <<GoodTrack>>)>>, LeadingMdat)
CodecInit == Init /\ file = GoodFile /\ options = DefaultOptions

CallMapVideoCodec(fourcc) ==
    /\ lastOp' = Call("mapVideoCodec", fourcc)
    /\ result' = Returned("codec", mapVideoCodec(fourcc))
    /\ UNCHANGED << reader, parser, calls, decoded >>
    /\ UNCHANGED << file, options, streams, timeScale, duration, mdatOffset, mdatSize,
                    samples, currentSampleIndex, webcodecs, lifecycle, inits >>

CallMapAudioCodec(fourcc) ==
    /\ lastOp' = Call("mapAudioCodec", fourcc)
    /\ result' = Returned("codec", mapAudioCodec(fourcc))
    /\ UNCHANGED << reader, parser, calls, decoded >>
    /\ UNCHANGED << file, options, streams, timeScale, duration, mdatOffset, mdatSize,
                    samples, currentSampleIndex, webcodecs, lifecycle, inits >>

CallGetVideoCodecName(fourcc) ==
    /\ lastOp' = Call("getVideoCodecName", fourcc)
    /\ result' = Returned("codec", getCodecName(fourcc, "video"))
    /\ UNCHANGED << reader, parser, calls, decoded >>
    /\ UNCHANGED << file, options, streams, timeScale, duration, mdatOffset, mdatSize,
                    samples, currentSampleIndex, webcodecs, lifecycle, inits >>

CallGetAudioCodecName(fourcc) ==
    /\ lastOp' = Call("getAudioCodecName", fourcc)
    /\ result' = Returned("codec", getCodecName(fourcc, "audio"))
    /\ UNCHANGED << reader, parser, calls, decoded >>
    /\ UNCHANGED << file, options, streams, timeScale, duration, mdatOffset, mdatSize,
                    samples, currentSampleIndex, webcodecs, lifecycle, inits >>

CodecNext ==
    \E fourcc \in Fourccs :
        \/ CallMapVideoCodec(fourcc)
        \/ CallMapAudioCodec(fourcc)
        \/ CallGetVideoCodecName(fourcc)
        \/ CallGetAudioCodecName(fourcc)

CodecSpec == CodecInit /\ [][CodecNext]_vars

----------------------------------------------------------------------------
(* Properties of the cursor *)

\* The 0-based indices of the keyframes at or before t microseconds
KeyframesAtOrBefore(list, t) ==
    {i \in 0..(Len(list) - 1) :
        list[i + 1].isKeyframe /\ ~RatGTInt(list[i + 1].timestamp, t)}

\* The greatest of them, 0 when there is none
SeekTarget(list, t) ==
    LET K == KeyframesAtOrBefore(list, t)
    IN  IF K = {} THEN 0 ELSE CHOOSE i \in K : \A j \in K : j <= i

\* A successful init() has run from Unparsed and close() has not.
Initialised == lifecycle = "Initialised"

\* C1: after a successful init(), seek(t) leaves the cursor on the greatest
\* 0-based index whose sample is a keyframe with timestamp <= t, and on 0 when
\* no sample is one; so the getNextSample() that follows returns a keyframe at
\* or before t with no later keyframe at or before t, or, when there is no
\* keyframe at or before t, the first sample of the merged list.
C1_SeekLandsOnKeyframe ==
    (Initialised /\ lastOp.op = "seek") =>
        LET t == lastOp.arg
            K == KeyframesAtOrBefore(samples, t)
            following == getNextSample(samples, currentSampleIndex).ret
        IN  /\ currentSampleIndex = SeekTarget(samples, t)
            /\ samples # <<>> =>
                  /\ following.kind = "sample"
                  /\ IF K = {}
                     THEN following.val[1] = samples[1]
                     ELSE /\ following.val[1].isKeyframe
                          /\ ~RatGTInt(following.val[1].timestamp, t)
                          /\ \A j \in K :
                                RatLE(samples[j + 1].timestamp, following.val[1].timestamp)
            /\ samples = <<>> => following = Null

\* seek has skipped a sample at or before the target that is no keyframe and
\* has landed on a keyframe that is not the first sample.
C1_Witness ==
    /\ Initialised
    /\ lastOp.op = "seek"
    /\ currentSampleIndex > 0
    /\ \E j \in (currentSampleIndex + 2)..Len(samples) :
          ~samples[j].isKeyframe /\ ~RatGTInt(samples[j].timestamp, lastOp.arg)

\* C2: getNextSample() with the cursor inside the list returns samples[cursor]
\* and moves the cursor on by exactly one; with the cursor at the end it
\* returns null and leaves the cursor, and no call other than seek, reset, init
\* or close moves the cursor off the end, so every further getNextSample()
\* returns null as well.
C2_NextSampleStep ==
    [][ /\ lastOp'.op = "getNextSample" =>
              IF currentSampleIndex < Len(samples)
              THEN /\ result' = Returned("sample", <<samples[currentSampleIndex + 1]>>)
                   /\ currentSampleIndex' = currentSampleIndex + 1
              ELSE /\ result' = Null
                   /\ currentSampleIndex' = currentSampleIndex
        /\ (currentSampleIndex = Len(samples)
              /\ lastOp'.op \notin {"seek", "reset", "init", "close"}) =>
              /\ currentSampleIndex' = Len(samples')
              /\ lastOp'.op = "getNextSample" => result' = Null
      ]_vars

\* getNextSample has returned null at the end of a list that holds samples.
C2_Witness ==
    /\ Initialised
    /\ lastOp.op = "getNextSample"
    /\ result = Null
    /\ samples # <<>>
    /\ currentSampleIndex = Len(samples)

----------------------------------------------------------------------------
(* Properties of init *)

\* The per-track index of track i (0-based) of the file, as init builds it
TrackIndex(i) ==
    LET trak == file.moov[1].traks[i + 1]
    IN  buildSampleIndex(parseSampleTable(trak.stbl).val, i, trak.mdhd.timeScale)

\* Track i (0-based) of the file is one init keeps
TrackKept(i) ==
    LET trak == file.moov[1].traks[i + 1]
    IN  \/ trak.hdlr = "vide" /\ options.enableVideo
        \/ trak.hdlr = "soun" /\ options.enableAudio

\* init() has run once, from Unparsed, and has returned.
FirstInitDone == Initialised /\ inits = 1

\* C3: after the first init() the merged list is in non-decreasing timestamp
\* order, samples of equal timestamp are in ascending stream id order, and the
\* samples of each stream id are the per-track index of that track in its
\* order (empty for a track that init does not keep); a getNextSample() that
\* returns a sample returns the element of that list the cursor was on.
C3_MergedOrder ==
    FirstInitDone =>
        /\ \A i, j \in 1..Len(samples) : i < j =>
              /\ RatLE(samples[i].timestamp, samples[j].timestamp)
              /\ RatEQ(samples[i].timestamp, samples[j].timestamp) =>
                    samples[i].streamId <= samples[j].streamId
        /\ \A id \in 0..(Len(file.moov[1].traks) - 1) :
              SelectSeq(samples, LAMBDA s : s.streamId = id)
                 = IF TrackKept(id) THEN TrackIndex(id) ELSE <<>>
        /\ \A i \in 1..Len(samples) :
              samples[i].streamId \in 0..(Len(file.moov[1].traks) - 1)
        /\ (lastOp.op = "getNextSample" /\ result.kind = "sample") =>
              result.val[1] = samples[currentSampleIndex]

\* Two streams interleave in the merged list, and two samples of different
\* streams share a timestamp.
C3_Witness ==
    /\ FirstInitDone
    /\ \E i, j, k \in 1..Len(samples) :
          /\ i < j /\ j < k
          /\ samples[i].streamId = samples[k].streamId
          /\ samples[i].streamId # samples[j].streamId
    /\ \E i, j \in 1..Len(samples) :
          /\ i < j
          /\ samples[i].streamId < samples[j].streamId
          /\ RatEQ(samples[i].timestamp, samples[j].timestamp)

----------------------------------------------------------------------------
(* Properties of sample data *)

\* The sample the last getSampleData was given
DataSample == samples[lastOp.arg + 1]

\* C4: getSampleData(s) returns exactly the bytes of the buffer from the
\* absolute offset s.offset, s.size of them: the media data offset is not added
\* a second time; when that range does not lie inside the buffer it fails with
\* the CORRUPT_DATA error.
C4_SampleDataAbsolute ==
    lastOp.op = "getSampleData" =>
        IF DataSample.offset + DataSample.size <= file.bufLen
        THEN result = Returned("data", <<DataSample.offset, DataSample.size>>)
        ELSE result = Thrown(corruptData)

\* C5: once init() has returned, every sample of the list lies inside the
\* buffer and not before the media data: mdatOffset <= offset and
\* offset + size <= the buffer's length, whatever the stco and stsz values.
C5_SamplesInsideBuffer ==
    Initialised =>
        \A i \in 1..Len(samples) :
            /\ mdatOffset <= samples[i].offset
            /\ samples[i].offset + samples[i].size <= file.bufLen

----------------------------------------------------------------------------
(* Properties of init's failures *)

\* C6: init() on a file without a top-level moov box fails with the
\* MISSING_REQUIRED_BOX error naming moov.
C6_NoMoovIsMissingRequiredBox ==
    (lastOp.op = "init" /\ file.moov = <<>>) =>
        result = Thrown(missingRequiredBox("moov"))

\* C7: init() on a file whose moov has no mvhd, or an mvhd that cannot be
\* parsed, fails; it never returns with the default time scale and duration.
C7_NoMvhdAborts ==
    (lastOp.op = "init" /\ file.moov # <<>>
        /\ (file.moov[1].mvhd = <<>> \/ file.moov[1].mvhd[1].truncated)) =>
        result.kind = "throw"

\* Track i (1-based) of the file has its stsz, stco or stts cut short
CutShort(box) == box.entryCount > Len(box.entries)
TrackCutShort(i) ==
    LET stbl == file.moov[1].traks[i].stbl
    IN  CutShort(stbl.stsz) \/ CutShort(stbl.stco) \/ CutShort(stbl.stts)

\* The file is sound but for stsz, stco or stts boxes cut short
OnlySizeOffsetTimeCut ==
    /\ file.ftyp = <<>> \/ ~file.ftyp[1].truncated
    /\ file.moov # <<>>
    /\ file.moov[1].mvhd # <<>> /\ ~file.moov[1].mvhd[1].truncated
    /\ \E i \in 1..Len(file.moov[1].traks) : TrackCutShort(i)
    /\ \A i \in 1..Len(file.moov[1].traks) :
          LET stbl == file.moov[1].traks[i].stbl
          IN  /\ ~CutShort(stbl.stsc)
              /\ stbl.stss = <<>> \/ ~CutShort(stbl.stss[1])

\* C8: a stsz, stco or stts box cut short is recovered from: init() returns
\* without an error, and the track the box belongs to is among the streams.
C8_TruncatedTableRecovered ==
    (lastOp.op = "init" /\ OnlySizeOffsetTimeCut) =>
        /\ result = Void
        /\ \A i \in 1..Len(file.moov[1].traks) :
              (TrackCutShort(i) /\ TrackKept(i - 1)) =>
                  \E k \in 1..Len(streams) : streams[k].id = i - 1

----------------------------------------------------------------------------
(* Properties of the lifecycle *)

\* C9: the lifecycle is enforced. getNextSample, seek and getSampleData are
\* rejected outside Initialised (before init() and after close()), and init()
\* takes effect only from Unparsed: a second init() appends no stream and no
\* sample again.
C9_LifecycleEnforced ==
    [][ /\ (lastOp'.op \in {"getNextSample", "seek", "getSampleData"}
              /\ lifecycle # "Initialised") => result'.kind = "throw"
        /\ (lastOp'.op = "init" /\ lifecycle # "Unparsed") =>
              /\ streams' = streams
              /\ samples' = samples
      ]_vars

\* C10: close() drops the samples, the cursor and the decoders and returns
\* without an error from every state; a close() after a close() changes
\* nothing, so two calls leave what one leaves; and the getNextSample() after a
\* close() returns null.
C10_CloseIdempotent ==
    /\ [](lastOp.op = "close" =>
            /\ result = Void
            /\ samples = <<>>
            /\ currentSampleIndex = 0
            /\ webcodecs = <<>>
            /\ getNextSample(samples, currentSampleIndex).ret = Null)
    /\ [][ /\ (lastOp.op = "close" /\ lastOp'.op = "close") => UNCHANGED vars
           /\ (lastOp.op = "close" /\ lastOp'.op = "getNextSample") =>
                 result' = Null /\ currentSampleIndex' = 0
         ]_vars

----------------------------------------------------------------------------
(* Properties of the accessors *)

\* C11: while the demuxer is Initialised, getNextSample, seek, reset,
\* getSampleData, getInfo, getFrameRateInfo and getBitRateInfo change nothing
\* but the cursor: streams, the sample list, timeScale, duration, mdatOffset and
\* mdatSize keep the values init() gave them.
C11_AccessorsChangeOnlyCursor ==
    [][ (Initialised
           /\ lastOp'.op \in {"getNextSample", "seek", "reset", "getSampleData",
                              "getInfo", "getFrameRateInfo", "getBitRateInfo"}) =>
           UNCHANGED << streams, samples, timeScale, duration, mdatOffset, mdatSize >>
      ]_vars

\* An information accessor has run after the cursor has moved over samples.
C11_Witness ==
    /\ Initialised
    /\ lastOp.op \in {"getInfo", "getFrameRateInfo", "getBitRateInfo"}
    /\ samples # <<>>
    /\ currentSampleIndex > 0

----------------------------------------------------------------------------
(* Properties of the sample index *)

RECURSIVE SumOver(_, _)
\* The sum of f[i] over the set I of integers
SumOver(f, I) ==
    IF I = {} THEN 0
    ELSE LET i == CHOOSE x \in I : TRUE IN f[i] + SumOver(f, I \ {i})

\* The 0-based positions of the tracks init keeps
KeptTracks == {i \in 0..(Len(file.moov[1].traks) - 1) : TrackKept(i)}

\* The sample count the stsz box of track i (0-based) declares
DeclaredCount(i) == file.moov[1].traks[i + 1].stbl.stsz.entryCount

\* The number of samples the stsc runs assign to the stco chunks of track i
AssignedCount(i) ==
    LET perChunk == buildChunkToSampleMapping(
                        parseSampleTable(file.moov[1].traks[i + 1].stbl).val)
    IN  SumOver(perChunk, 1..Len(perChunk))

\* What is left of the declared count of track i when the chunks hold fewer
TrimmedCount(i) == Min(DeclaredCount(i), AssignedCount(i))

\* C12 (as stated): after init() the number of samples, which getInfo()
\* reports as sampleCount, is the sum over the kept tracks of the sample count
\* the track's stsz declares, whatever the stsz, stsc and stco tables are.
C12_SampleCountIsStszSum ==
    FirstInitDone =>
        /\ Len(samples) = SumOver([i \in KeptTracks |-> DeclaredCount(i)], KeptTracks)
        /\ lastOp.op = "getInfo" =>
              result.val[1].sampleCount
                 = SumOver([i \in KeptTracks |-> DeclaredCount(i)], KeptTracks)

\* C12 (amended): after init() the number of samples, which getInfo() reports
\* as sampleCount, is the sum over the kept tracks of the sample count the
\* track's stsz declares, trimmed to the number of samples its stsc runs assign
\* to its stco chunks when that is smaller.
C12_SampleCountTrimmed ==
    FirstInitDone =>
        /\ Len(samples) = SumOver([i \in KeptTracks |-> TrimmedCount(i)], KeptTracks)
        /\ lastOp.op = "getInfo" =>
              result.val[1].sampleCount
                 = SumOver([i \in KeptTracks |-> TrimmedCount(i)], KeptTracks)

\* getInfo() has reported a list that is not empty and is shorter than the
\* stsz of the only track declares.
C12_Witness ==
    /\ FirstInitDone
    /\ lastOp.op = "getInfo"
    /\ KeptTracks = {0}
    /\ result.val[1].sampleCount > 0
    /\ result.val[1].sampleCount < DeclaredCount(0)

\* The samples of stream id, in the order of the merged list
StreamSamples(id) == SelectSeq(samples, LAMBDA s : s.streamId = id)

\* The stss box of track i (0-based): <<>> when the track has none
SyncBox(i) == file.moov[1].traks[i + 1].stbl.stss

\* C13: the sample with 1-based sample number n of a track is a keyframe if the
\* track has no stss box, and otherwise exactly when n is one of the numbers
\* the stss box lists, taken as 1-based sample numbers.
C13_KeyframeIsStssMember ==
    FirstInitDone =>
        \A i \in KeptTracks :
            \A n \in 1..Len(StreamSamples(i)) :
                StreamSamples(i)[n].isKeyframe
                   <=> \/ SyncBox(i) = <<>>
                       \/ \E k \in 1..Len(SyncBox(i)[1].entries) :
                             SyncBox(i)[1].entries[k] = n

\* A track with an stss box has a keyframe that is not its first sample and a
\* sample that is not a keyframe.
C13_Witness ==
    /\ FirstInitDone
    /\ \E i \in KeptTracks :
          /\ SyncBox(i) # <<>>
          /\ \E n \in 2..Len(StreamSamples(i)) : StreamSamples(i)[n].isKeyframe
          /\ \E n \in 1..Len(StreamSamples(i)) : ~StreamSamples(i)[n].isKeyframe

----------------------------------------------------------------------------
(* Properties of the rates *)

\* The stts entries and the time scale of track i (0-based)
SttsEntries(i) == file.moov[1].traks[i + 1].stbl.stts.entries
TrackTimeScale(i) == file.moov[1].traks[i + 1].mdhd.timeScale

\* All deltas of the stts of track i are equal / are equal and positive
EqualDeltas(i) ==
    \A j, k \in 1..Len(SttsEntries(i)) : SttsEntries(i)[j].delta = SttsEntries(i)[k].delta
EqualPositiveDeltas(i) ==
    /\ SttsEntries(i) # <<>>
    /\ EqualDeltas(i)
    /\ SttsEntries(i)[1].delta > 0

\* C14: getFrameRateInfo() reports, for every video track whose stts describes
\* at least one sample, isConstant = true with frameRate = timeScale / delta
\* (to the 3 decimals the rates are kept with) when all stts deltas are equal
\* and positive, and isConstant = false when the stts deltas are not all equal.
C14_ConstantFrameRateFlag ==
    (FirstInitDone /\ lastOp.op = "getFrameRateInfo") =>
        \A e \in 1..Len(result.val) :
            LET info == result.val[e]
                i == info.streamId
            IN  /\ (EqualPositiveDeltas(i) /\ sumCounts(SttsEntries(i)) > 0) =>
                      /\ info.isConstant
                      /\ info.frameRate
                            = <<roundDiv(TrackTimeScale(i) * 1000, SttsEntries(i)[1].delta)>>
                /\ (~EqualDeltas(i) /\ sumCounts(SttsEntries(i)) > 0) => ~info.isConstant

\* Absolute value
Abs(x) == IF x < 0 THEN -x ELSE x

\* Eight times the bytes of the samples of stream str, times its time scale:
\* the bit rate times the duration in ticks
BitTicks(str) == 8 * totalSize(StreamSamples(str.id)) * str.timeScale

\* Stream str has a sample and a positive duration
HasRate(str) == StreamSamples(str.id) # <<>> /\ str.duration > 0

\* C15: after init(), every stream with at least one sample and a positive
\* duration in ticks has avgBitRate within 1 of
\* 8 * (bytes of its samples) * timeScale / duration, and bitRate = avgBitRate;
\* every other stream has neither.
C15_BitRateIdentity ==
    FirstInitDone =>
        \A k \in 1..Len(streams) :
            LET str == streams[k]
            IN  IF HasRate(str)
                THEN /\ Len(str.avgBitRate) = 1
                     /\ Abs(str.avgBitRate[1] * str.duration - BitTicks(str)) <= str.duration
                     /\ str.bitRate = str.avgBitRate
                ELSE str.avgBitRate = <<>> /\ str.bitRate = <<>>

\* A stream whose rate is not a whole number of bits per second, so that the
\* rounding shows, reported by getBitRateInfo()
C15_Witness ==
    /\ FirstInitDone
    /\ lastOp.op = "getBitRateInfo"
    /\ \E k \in 1..Len(streams) :
          /\ HasRate(streams[k])
          /\ BitTicks(streams[k]) % streams[k].duration # 0
          /\ result.val[k].avgBitRate = streams[k].avgBitRate

----------------------------------------------------------------------------
(* Properties of the cursor *)

\* C16: seek(t) never throws, whatever t is and whether or not there are
\* samples; in every state 0 <= cursor <= number of samples; and seek leaves
\* the cursor below the number of samples whenever there is a sample.
C16_CursorInRange ==
    /\ 0 <= currentSampleIndex
    /\ currentSampleIndex <= Len(samples)
    /\ lastOp.op = "seek" =>
          /\ result = Void
          /\ samples # <<>> => currentSampleIndex < Len(samples)

\* A seek past the last timestamp of a list of several samples
C16_Witness ==
    /\ lastOp.op = "seek"
    /\ Len(samples) > 1
    /\ ~RatGTInt(samples[Len(samples)].timestamp, lastOp.arg)
    /\ currentSampleIndex < Len(samples)

----------------------------------------------------------------------------
(* Properties of the streams *)

\* The handler of track i (0-based), and the stream type it stands for
HandlerOf(i) == file.moov[1].traks[i + 1].hdlr
KindOf(i) == IF HandlerOf(i) = "vide" THEN "video" ELSE "audio"

\* C17: after init(), the streams are the tracks with handler vide while
\* enableVideo is set or soun while enableAudio is set, one stream per such
\* track and in file order, each with the 0-based position of its trak box
\* among all trak boxes as id (so the ids are distinct) and the type of its
\* handler; no sample carries the id of any other track.
C17_StreamsAreKeptTracks ==
    FirstInitDone =>
        /\ {streams[k].id : k \in 1..Len(streams)} = KeptTracks
        /\ \A j, k \in 1..Len(streams) : j < k => streams[j].id < streams[k].id
        /\ \A k \in 1..Len(streams) : streams[k].type = KindOf(streams[k].id)
        /\ \A n \in 1..Len(samples) : samples[n].streamId \in KeptTracks

\* The first track is left out, by its handler or by the options, and the
\* second is kept under the id 1 and has samples
C17_Witness ==
    /\ FirstInitDone
    /\ KeptTracks = {1}
    /\ HandlerOf(0) \in {"vide", "soun"}
    /\ Len(streams) = 1 /\ streams[1].id = 1
    /\ StreamSamples(1) # <<>>

----------------------------------------------------------------------------
(* Properties of the codec tables *)

\* The tables the specification lists
CanonicalVideo ==
       ("avc1" :> "avc1")
    @@ ("avc3" :> "avc1")
    @@ ("hev1" :> "hev1")
    @@ ("hvc1" :> "hvc1")
    @@ ("vp08" :> "vp8")
    @@ ("vp09" :> "vp9")
    @@ ("av01" :> "av01")
    @@ ("mp4v" :> "mp4v.20.9")
    @@ ("mjpa" :> "mjpeg")
    @@ ("mjpb" :> "mjpeg")
    @@ ("mjpg" :> "mjpeg")
    @@ ("apch" :> "prores")
    @@ ("apcn" :> "prores")
    @@ ("apcs" :> "prores")
    @@ ("apco" :> "prores")
    @@ ("ap4h" :> "prores")

CanonicalAudio ==
       ("mp4a" :> "mp4a.40.2")
    @@ ("opus" :> "opus")
    @@ ("mp3" :> "mp3")
    @@ ("fLaC" :> "flac")
    @@ ("flac" :> "flac")
    @@ ("vorb" :> "vorbis")
    @@ ("lpcm" :> "pcm-s16")
    @@ ("sowt" :> "pcm-s16")
    @@ ("twos" :> "pcm-s16")
    @@ ("in24" :> "pcm-s24")
    @@ ("in32" :> "pcm-s32")
    @@ ("fl32" :> "pcm-f32")
    @@ ("fl64" :> "pcm-f64")

\* The keys of a table with their case folded
FoldedKeys(codecMap) == {toLowerCase(k) : k \in DOMAIN codecMap}

\* No table of the code or of the specification lists the fourcc, in any case
Unlisted(fourcc) ==
    toLowerCase(fourcc) \notin
        FoldedKeys(mapVideoCodecMap) \cup FoldedKeys(mapAudioCodecMap)
        \cup FoldedKeys(VIDEO_CODECS) \cup FoldedKeys(AUDIO_CODECS)
        \cup FoldedKeys(CanonicalVideo) \cup FoldedKeys(CanonicalAudio)

\* The kind of table a call looks up
IsVideoLookup == lastOp.op \in {"mapVideoCodec", "getVideoCodecName"}
IsAudioLookup == lastOp.op \in {"mapAudioCodec", "getAudioCodecName"}

\* C18: a codec lookup returns the canonical string of the specification's
\* table for a fourcc the table lists and the fourcc itself for a fourcc that
\* no table lists, and the decoder-configuration mapper and
\* MOVUtils.getCodecName return the same string for the same fourcc.
C18_CodecLookupsAgree ==
    /\ (IsVideoLookup /\ lastOp.arg \in DOMAIN CanonicalVideo) =>
            result.val = CanonicalVideo[lastOp.arg]
    /\ (IsAudioLookup /\ lastOp.arg \in DOMAIN CanonicalAudio) =>
            result.val = CanonicalAudio[lastOp.arg]
    /\ ((IsVideoLookup \/ IsAudioLookup) /\ Unlisted(lastOp.arg)) =>
            result.val = lastOp.arg
    /\ lastOp.op = "mapVideoCodec" => result.val = getCodecName(lastOp.arg, "video")
    /\ lastOp.op = "mapAudioCodec" => result.val = getCodecName(lastOp.arg, "audio")

----------------------------------------------------------------------------
(* Properties of readFrame *)

\* The stream ids of a list of streams
StreamIds(strs) == {strs[k].id : k \in 1..Len(strs)}

\* C19: in every state a step leads to, every sample of the list carries the
\* id of a stream of streams; and a readFrame() that returns null was called
\* with the cursor at the end of the list and leaves the cursor there, so that
\* a null result never consumes a sample.
C19_NullFrameIsEndOfList ==
    [][ /\ \A n \in 1..Len(samples') : samples'[n].streamId \in StreamIds(streams')
        /\ (lastOp'.op = "readFrame" /\ result' = Null) =>
              /\ currentSampleIndex = Len(samples)
              /\ currentSampleIndex' = currentSampleIndex ]_vars

\* readFrame() has returned null at the end of a list that has samples, all
\* of which it has read
C19_Witness ==
    /\ Initialised
    /\ lastOp.op = "readFrame"
    /\ result = Null
    /\ samples # <<>>
    /\ currentSampleIndex = Len(samples)

----------------------------------------------------------------------------
(* Properties of the chunk layout *)

\* The decoded tables of track i (0-based)
TableOf(i) == parseSampleTable(file.moov[1].traks[i + 1].stbl).val

\* The stsc runs of track i are well formed: the first run starts at chunk 1
\* and the first_chunk values strictly increase
WellFormedStsc(i) ==
    LET runs == TableOf(i).samplesPerChunk
    IN  /\ runs # <<>>
        /\ runs[1].firstChunk = 1
        /\ \A e \in 1..(Len(runs) - 1) : runs[e].firstChunk < runs[e + 1].firstChunk

\* The run in effect for chunk c (1-based) of track i: the last run whose
\* first_chunk is at most c
RunOf(i, c) ==
    LET runs == TableOf(i).samplesPerChunk
    IN  CHOOSE e \in 1..Len(runs) :
            /\ runs[e].firstChunk <= c
            /\ \A d \in 1..Len(runs) : runs[d].firstChunk <= c => d <= e

\* The number of samples the runs give to the chunks before chunk c
RECURSIVE SamplesBefore(_, _)
SamplesBefore(i, c) ==
    IF c <= 1 THEN 0
    ELSE SamplesBefore(i, c - 1) + TableOf(i).samplesPerChunk[RunOf(i, c - 1)].samplesPerChunk

\* The chunk (1-based) the runs place sample number n (1-based) in
ChunkOfSample(i, n) ==
    CHOOSE c \in 1..Len(TableOf(i).chunkOffsets) :
        SamplesBefore(i, c) < n /\ n <= SamplesBefore(i, c + 1)

\* The bytes of the samples lo..hi of track i
RECURSIVE SizesOf(_, _, _)
SizesOf(i, lo, hi) ==
    IF hi < lo THEN 0 ELSE TableOf(i).sampleSizes[hi] + SizesOf(i, lo, hi - 1)

\* The sample numbers of track i that have a size and that the runs place in
\* a chunk
PlacedSamples(i) ==
    Min(Len(TableOf(i).sampleSizes), SamplesBefore(i, Len(TableOf(i).chunkOffsets) + 1))

\* C20: for a track whose stsc first_chunk values start at 1 and strictly
\* increase, the index holds the sample numbers that have a size and that
\* the stsc runs place in a chunk; the n-th sample of the index has the n-th
\* size of stsz, lies in the chunk c the runs place sample number n in, and
\* has as offset the offset of chunk c plus the sizes of the samples before
\* it in chunk c.
C20_SamplesFollowChunkRuns ==
    FirstInitDone =>
        \A i \in KeptTracks :
            WellFormedStsc(i) =>
                /\ Len(StreamSamples(i)) = PlacedSamples(i)
                /\ \A n \in 1..Len(StreamSamples(i)) :
                    LET c == ChunkOfSample(i, n)
                    IN  /\ StreamSamples(i)[n].size = TableOf(i).sampleSizes[n]
                        /\ StreamSamples(i)[n].offset
                              = TableOf(i).chunkOffsets[c]
                                + SizesOf(i, SamplesBefore(i, c) + 1, n - 1)

\* A track of two runs whose second run holds two samples: the third sample
\* is the second of its chunk
C20_Witness ==
    /\ FirstInitDone
    /\ KeptTracks = {0}
    /\ WellFormedStsc(0)
    /\ Len(TableOf(0).samplesPerChunk) = 2
    /\ Len(StreamSamples(0)) = 3
    /\ ChunkOfSample(0, 3) = 2
    /\ StreamSamples(0)[3].offset = TableOf(0).chunkOffsets[2] + TableOf(0).sampleSizes[2]

----------------------------------------------------------------------------
(* Properties of the sample times *)

\* The deltas an stts table stands for: count copies of delta for every entry,
\* in the order of the entries
RECURSIVE ExpandDeltas(_)
ExpandDeltas(entries) ==
    IF entries = <<>> THEN <<>>
    ELSE [k \in 1..entries[1].count |-> entries[1].delta] \o ExpandDeltas(Tail(entries))

\* The sum of the first n elements of a sequence of numbers
RECURSIVE SumFirst(_, _)
SumFirst(seq, n) == IF n = 0 THEN 0 ELSE seq[n] + SumFirst(seq, n - 1)

\* C21: for every stts table, entries of count 0 included, the n-th sample of
\* a track that the table covers has as timestamp the sum of the deltas of the
\* samples before it and as duration its own delta, the deltas being the
\* in-order expansion of the stts entries (count samples per entry).
C21_TimesFollowSttsExpansion ==
    FirstInitDone =>
        \A i \in KeptTracks :
            LET deltas == ExpandDeltas(SttsEntries(i))
            IN  \A n \in 1..Min(Len(StreamSamples(i)), Len(deltas)) :
                    /\ RatEQ(StreamSamples(i)[n].timestamp,
                             Rat(SumFirst(deltas, n - 1) * MICROS, TrackTimeScale(i)))
                    /\ RatEQ(StreamSamples(i)[n].duration,
                             Rat(deltas[n] * MICROS, TrackTimeScale(i)))

\* The same for tables whose entries all cover at least one sample
C21_PositiveCounts ==
    FirstInitDone =>
        \A i \in KeptTracks :
            (\A e \in 1..Len(SttsEntries(i)) : SttsEntries(i)[e].count > 0) =>
                LET deltas == ExpandDeltas(SttsEntries(i))
                IN  \A n \in 1..Min(Len(StreamSamples(i)), Len(deltas)) :
                        /\ RatEQ(StreamSamples(i)[n].timestamp,
                                 Rat(SumFirst(deltas, n - 1) * MICROS, TrackTimeScale(i)))
                        /\ RatEQ(StreamSamples(i)[n].duration,
                                 Rat(deltas[n] * MICROS, TrackTimeScale(i)))

\* C22: the timestamp and the duration of every sample, in microseconds, are
\* the integers round(ticks * 1000000 / timeScale) of its tick values, for
\* every time scale, those that do not divide 1000000 included.
C22_MicrosecondsAreRounded ==
    FirstInitDone =>
        \A n \in 1..Len(samples) :
            /\ RatEQ(samples[n].timestamp,
                     Rat(roundDiv(samples[n].timestamp.num, samples[n].timestamp.den), 1))
            /\ RatEQ(samples[n].duration,
                     Rat(roundDiv(samples[n].duration.num, samples[n].duration.den), 1))

----------------------------------------------------------------------------
(* ByteReader: big-endian reads over a window of an ArrayBuffer.  The
   readers of this package are all built with littleEndian = false. *)

\* new ByteReader(...): a reader over the window [byteOffset, byteOffset +
\* byteLength) of a buffer of bytes (0..255), the DataView of the code;
\* offset is the read position inside the window.
ByteReader(buffer, byteOffset, byteLength) ==
    [buffer |-> buffer, byteOffset |-> byteOffset, byteLength |-> byteLength, offset |-> 0]

position(r) == r.offset
remaining(r) == r.byteLength - r.offset

\* const x = v, followed by F(x): v is worked out once
With(v, F(_)) == CHOOSE out \in {F(x) : x \in {v}} : TRUE

\* What a read leaves: the reader, and the value returned or the error thrown
Read(r, ret) == [reader |-> r, ret |-> ret]

skip(r, bytes) == [r EXCEPT !.offset = @ + bytes]

\* The bytes in network order as a number; a first byte below zero gives the
\* two's complement value.
RECURSIVE bigEndianFirst(_, _)
bigEndianFirst(bytes, n) ==
    IF n = 0 THEN 0 ELSE 256 * bigEndianFirst(bytes, n - 1) + bytes[n]

bigEndian(bytes) == bigEndianFirst(bytes, Len(bytes))

bytesAt(r, n) == [k \in 1..n |-> r.buffer[r.byteOffset + r.offset + k]]

\* DataView.getUintN / getIntN at the offset: the platform throws RangeError
\* unless the n bytes lie inside the window.
getUint(r, n) ==
    IF r.offset >= 0 /\ r.offset + n <= r.byteLength
    THEN Ok(bigEndian(bytesAt(r, n)))
    ELSE Fail(RangeError)

getInt(r, n) ==
    IF r.offset >= 0 /\ r.offset + n <= r.byteLength
    THEN LET b == bytesAt(r, n)
         IN  Ok(bigEndian(<<IF b[1] >= 128 THEN b[1] - 256 ELSE b[1]>> \o Tail(b)))
    ELSE Fail(RangeError)

\* The offset moves only after the getter returned.
advance(r, n, got) == Read(IF got.ok THEN skip(r, n) ELSE r, got)

readUint8(r) == advance(r, 1, getUint(r, 1))
readUint16(r) == advance(r, 2, getUint(r, 2))
readUint32(r) == advance(r, 4, getUint(r, 4))
readInt16(r) == advance(r, 2, getInt(r, 2))
readInt32(r) == advance(r, 4, getInt(r, 4))

\* readUint24 is three readUint8 calls, each moving the offset by itself.
readUint24(r) ==
    LET a == readUint8(r)
        b == readUint8(a.reader)
        c == readUint8(b.reader)
    IN  IF ~a.ret.ok THEN a
        ELSE IF ~b.ret.ok THEN b
        ELSE IF ~c.ret.ok THEN c
        ELSE Read(c.reader, Ok((a.ret.val * 256 + b.ret.val) * 256 + c.ret.val))

\* readUint64 returns a bigint, kept here as its two 32-bit halves.
readUint64(r) ==
    LET hi == getUint(r, 4)
        lo == getUint(skip(r, 4), 4)
    IN  IF r.offset >= 0 /\ r.offset + 8 <= r.byteLength
        THEN Read(skip(r, 8), Ok([hi |-> hi.val, lo |-> lo.val]))
        ELSE Read(r, Fail(RangeError))

\* Number(bigint). A value of 2^32 or more is beyond every buffer of this
\* model and is kept as 2^30.
Number(big) == IF big.hi = 0 THEN big.lo ELSE 2^30

\* readBytes: a Uint8Array on the same ArrayBuffer, which the platform bounds
\* by the ArrayBuffer and not by the reader's window.
readBytes(r, length) ==
    IF length < 0 \/ r.byteOffset + r.offset + length > Len(r.buffer)
    THEN Read(r, Fail(RangeError))
    ELSE Read(skip(r, length),
              Ok([byteOffset |-> r.byteOffset + r.offset, byteLength |-> length]))

\* The character codes of the four-character codes the package names
ASCII ==
    [moov |-> <<109, 111, 111, 118>>,
     trak |-> <<116, 114, 97, 107>>,
     mdia |-> <<109, 100, 105, 97>>,
     minf |-> <<109, 105, 110, 102>>,
     stbl |-> <<115, 116, 98, 108>>,
     udta |-> <<117, 100, 116, 97>>,
     meta |-> <<109, 101, 116, 97>>,
     dinf |-> <<100, 105, 110, 102>>,
     edts |-> <<101, 100, 116, 115>>,
     mvex |-> <<109, 118, 101, 120>>,
     moof |-> <<109, 111, 111, 102>>,
     traf |-> <<116, 114, 97, 102>>,
     mfra |-> <<109, 102, 114, 97>>,
     skip |-> <<115, 107, 105, 112>>,
     wide |-> <<119, 105, 100, 101>>,
     free |-> <<102, 114, 101, 101>>,
     uuid |-> <<117, 117, 105, 100>>,
     pnot |-> <<112, 110, 111, 116>>,
     mdat |-> <<109, 100, 97, 116>>,
     ftyp |-> <<102, 116, 121, 112>>,
     mvhd |-> <<109, 118, 104, 100>>,
     mp4a |-> <<109, 112, 52, 97>>]

\* String.fromCodePoint(...bytes) of four bytes; a string that the package
\* names nowhere is written "????".
fromCodePoint(bytes) ==
    IF \E t \in DOMAIN ASCII : ASCII[t] = bytes
    THEN CHOOSE t \in DOMAIN ASCII : ASCII[t] = bytes
    ELSE "????"

readString(r, length) ==
    LET b == readBytes(r, length)
    IN  IF b.ret.ok THEN Read(b.reader, Ok(fromCodePoint(bytesAt(r, length)))) ELSE b

readFourCC(r) == readString(r, 4)

\* readFixed16 and readFixed32 are the same code: readInt32() / (1 << 16)
readFixed16(r) ==
    LET v == readInt32(r)
    IN  IF v.ret.ok THEN Read(v.reader, Ok(Rat(v.ret.val, 2^16))) ELSE v

readFixed32(r) == readFixed16(r)

subReader(r, length) ==
    LET b == readBytes(r, length)
    IN  IF b.ret.ok
        THEN Read(b.reader, Ok(ByteReader(r.buffer, b.ret.val.byteOffset, length)))
        ELSE b

----------------------------------------------------------------------------
(* BoxParser.  parseBoxes is followed turn by turn of its loops: the loop of
   parseBoxes itself, and under it the loops of the parseContainerBox calls
   that have not returned yet, innermost last.  With each box the model
   keeps where its header really began (headerAt), how many bytes the header
   took (headerLen), where the reader stood when the box was handed to the
   calling loop (resumedAt) and, for a container, why its loop ended
   (stopped): the code has no such fields. *)

containerTypes ==
    {"moov", "trak", "mdia", "minf", "stbl", "udta", "meta", "dinf", "edts",
     "mvex", "moof", "traf", "mfra", "skip", "wide", "free", "uuid", "pnot"}

isContainerBox(type) == type \in containerTypes

\* readBoxHeader: the reader it leaves and the atom, <<>> for null. The
\* offset is taken after size has been given the extended or to-the-end value.
readBoxHeader(r) ==
    LET atomAt(after, type, size) ==
            [reader |-> after,
             atom |-> <<[type |-> type, size |-> size,
                         offset |-> position(after) - (IF size = 1 THEN 16 ELSE 8)]>>]
    IN  IF remaining(r) < 8 THEN [reader |-> r, atom |-> <<>>]
        ELSE With(readUint32(r), LAMBDA s :
             With(readFourCC(s.reader), LAMBDA t :
                 IF s.ret.val = 1
                 THEN IF remaining(t.reader) < 8 THEN [reader |-> t.reader, atom |-> <<>>]
                      ELSE With(readUint64(t.reader), LAMBDA e :
                               atomAt(e.reader, t.ret.val, Number(e.ret.val)))
                 ELSE IF s.ret.val = 0
                 THEN atomAt(t.reader, t.ret.val, remaining(t.reader) + 8)
                 ELSE atomAt(t.reader, t.ret.val, s.ret.val)))

\* new BoxParser(buffer), about to enter parseBoxes
BoxParser == [done |-> FALSE, boxes |-> <<>>, loops |-> <<>>]

\* boxes.push(box) of parseBoxes, children.push(child) of parseContainerBox
pushBox(p, box) ==
    IF p.loops = <<>> THEN [p EXCEPT !.boxes = Append(@, box)]
    ELSE [p EXCEPT !.loops[Len(p.loops)].children = Append(@, box)]

\* The innermost parseContainerBox returns its children: parseBox stores them
\* in the box and returns the box to the loop that called it.
returnChildren(r, p, why) ==
    LET loop == p.loops[Len(p.loops)]
        box == [loop.box EXCEPT !.children = <<loop.children>>,
                                !.resumedAt = position(r), !.stopped = why]
    IN  pushBox([p EXCEPT !.loops = SubSeq(@, 1, Len(@) - 1)], box)

\* parseBox(atom), as far as the box it returns, the null it returns, or the
\* parseContainerBox call it makes.
parseBox(r, p, atom, headerAt) ==
    LET dataSize == atom.size - (position(r) - atom.offset)
        box == [type |-> atom.type, size |-> atom.size, offset |-> atom.offset,
                data |-> <<>>, children |-> <<>>,
                headerAt |-> headerAt, headerLen |-> position(r) - headerAt,
                resumedAt |-> position(r), stopped |-> ""]
        d == readBytes(r, dataSize)
    IN  IF dataSize < 0 \/ remaining(r) < dataSize
        THEN [reader |-> r, parser |-> p]
        ELSE IF isContainerBox(atom.type)
        THEN [reader |-> r,
              parser |-> [p EXCEPT !.loops = Append(@, [box |-> box,
                                                        endOffset |-> position(r) + dataSize,
                                                        children |-> <<>>])]]
        ELSE [reader |-> d.reader,
              parser |-> pushBox(p, [box EXCEPT !.data = <<d.ret.val>>,
                                                !.resumedAt = position(d.reader)])]

\* A parseBoxes whose loop goes on after readBoxHeader returned null
parseBoxesPastNull(r, p) ==
    With(readBoxHeader(r), LAMBDA h :
        IF ~(remaining(r) > 0)
        THEN [reader |-> r, parser |-> [p EXCEPT !.done = TRUE]]
        ELSE IF h.atom = <<>>
        THEN [reader |-> h.reader, parser |-> p]
        ELSE parseBox(h.reader, p, h.atom[1], position(r)))

\* One turn of the while loop of parseBoxes
parseBoxes(r, p) ==
    With(readBoxHeader(r), LAMBDA h :
        IF ~(remaining(r) > 0)
        THEN [reader |-> r, parser |-> [p EXCEPT !.done = TRUE]]
        ELSE IF h.atom = <<>>
        THEN [reader |-> h.reader, parser |-> [p EXCEPT !.done = TRUE]]
        ELSE parseBox(h.reader, p, h.atom[1], position(r)))

\* One turn of the while loop of the innermost parseContainerBox
parseContainerBox(r, p) ==
    With(readBoxHeader(r), LAMBDA h : With(p.loops[Len(p.loops)], LAMBDA loop :
        IF ~(position(r) < loop.endOffset /\ remaining(r) > 0)
        THEN [reader |-> r, parser |-> returnChildren(r, p, "end")]
        ELSE IF h.atom = <<>>
        THEN [reader |-> h.reader, parser |-> returnChildren(h.reader, p, "no header")]
        ELSE IF position(h.reader) - 8 + h.atom[1].size > loop.endOffset
        THEN [reader |-> h.reader, parser |-> returnChildren(h.reader, p, "crossing")]
        ELSE parseBox(h.reader, p, h.atom[1], position(r))))

\* BoxParser.findBox: the first box of the type, depth first; <<>> for null
RECURSIVE findBox(_, _)
findBox(boxes, type) ==
    IF boxes = <<>> THEN <<>>
    ELSE IF boxes[1].type = type THEN <<boxes[1]>>
    ELSE LET found == IF boxes[1].children # <<>>
                      THEN findBox(boxes[1].children[1], type) ELSE <<>>
         IN  IF found # <<>> THEN found ELSE findBox(Tail(boxes), type)

\* MOVDemuxer.init, the media data step: the offset and the size it keeps
findMdat(boxes, ctx) ==
    LET mdatBox == findBox(boxes, "mdat")
    IN  IF mdatBox # <<>>
        THEN [mdatOffset |-> mdatBox[1].offset + BOX_HEADER,
              mdatSize |-> mdatBox[1].size - BOX_HEADER]
        ELSE ctx

----------------------------------------------------------------------------
(* Input buffers *)

MaxBoxes == 2
MaxNest == 2

Uint32(n) == <<0, 0, n \div 256, n % 256>>
Header(type, size) == Uint32(size) \o ASCII[type]
ExtendedHeader(type, size) == Uint32(1) \o ASCII[type] \o Uint32(0) \o Uint32(size)
Atom(type, payload) == Header(type, 8 + Len(payload)) \o payload
ExtendedAtom(type, payload) == ExtendedHeader(type, 16 + Len(payload)) \o payload
Padding == <<0, 0, 0, 0>>

\* Containers inside one another, depth deep, around an empty media data box
RECURSIVE Nest(_)
Nest(depth) ==
    IF depth = 0 THEN Atom("mdat", <<>>)
    ELSE Atom(<<"moov", "trak", "mdia", "minf", "stbl">>[((depth - 1) % 5) + 1], Nest(depth - 1))

\* Top-level pieces: boxes with either header, with and without payload, free
\* space and user data around a box, containers whose child declares a size
\* past their end, below a header's, or leaves stray bytes, boxes that run to
\* the end of the file or past it, and a header cut short.
Pieces ==
    {Atom("mdat", <<>>), Atom("mdat", Padding), ExtendedAtom("mdat", Padding),
     Atom("ftyp", Padding),
     Atom("free", Atom("mdat", <<>>)), Atom("udta", Atom("mdat", Padding)),
     ExtendedAtom("moov", Atom("trak", <<>>)),
     Atom("moov", Header("trak", 8 + 2 * Len(Padding)) \o Padding),
     Atom("moov", Header("trak", Len(Padding))),
     Atom("moov", Padding),
     Header("mdat", 0) \o Padding,
     Header("mdat", 1),
     Header("mdat", 8 + 16 * Len(Padding)),
     Padding}
    \cup {Nest(depth) : depth \in 1..MaxNest}

RECURSIVE Concat(_)
Concat(pieces) == IF pieces = <<>> THEN <<>> ELSE pieces[1] \o Concat(Tail(pieces))

Buffers == {Concat(pieces) : pieces \in SeqUpTo(Pieces, MaxBoxes)}

----------------------------------------------------------------------------
(* The box parser as a state machine: init() as far as the media data step *)

\* The demuxer as its constructor leaves it
Constructed(f, opts) ==
    /\ file = f
    /\ options = opts
    /\ streams = <<>>
    /\ timeScale = DEFAULT_TIME_SCALE
    /\ duration = DEFAULT_DURATION
    /\ mdatOffset = 0
    /\ mdatSize = 0
    /\ samples = <<>>
    /\ currentSampleIndex = 0
    /\ webcodecs = <<>>
    /\ lastOp = Call("new", 0)
    /\ result = Void
    /\ lifecycle = "Unparsed"
    /\ inits = 0

BoxInit ==
    /\ \E buffer \in Buffers :
           /\ Constructed(File(Len(buffer), <<>>, <<>>, <<>>), DefaultOptions)
           /\ reader = ByteReader(buffer, 0, Len(buffer))
    /\ parser = BoxParser
    /\ calls = <<>>
    /\ decoded = <<>>

ParseBoxesTurn ==
    /\ ~parser.done
    /\ parser.loops = <<>>
    /\ \E r \in {parseBoxes(reader, parser)} :
           /\ reader' = r.reader
           /\ parser' = r.parser
    /\ lastOp' = Call("parseBoxes", position(reader))
    /\ UNCHANGED << calls, decoded, result >>
    /\ UNCHANGED << file, options, streams, timeScale, duration, mdatOffset, mdatSize,
                    samples, currentSampleIndex, webcodecs, lifecycle, inits >>

ParseContainerBoxTurn ==
    /\ ~parser.done
    /\ parser.loops # <<>>
    /\ \E r \in {parseContainerBox(reader, parser)} :
           /\ reader' = r.reader
           /\ parser' = r.parser
    /\ lastOp' = Call("parseContainerBox", position(reader))
    /\ UNCHANGED << calls, decoded, result >>
    /\ UNCHANGED << file, options, streams, timeScale, duration, mdatOffset, mdatSize,
                    samples, currentSampleIndex, webcodecs, lifecycle, inits >>

FindMdat ==
    /\ parser.done
    /\ lastOp.op # "findMdat"
    /\ \E r \in {findMdat(parser.boxes, [mdatOffset |-> mdatOffset, mdatSize |-> mdatSize])} :
           /\ mdatOffset' = r.mdatOffset
           /\ mdatSize' = r.mdatSize
    /\ lastOp' = Call("findMdat", position(reader))
    /\ UNCHANGED << reader, parser, calls, decoded, result >>
    /\ UNCHANGED << file, options, streams, timeScale, duration,
                    samples, currentSampleIndex, webcodecs, lifecycle, inits >>

BoxNext ==
    \/ ParseBoxesTurn
    \/ ParseContainerBoxTurn
    \/ FindMdat

BoxSpec == BoxInit /\ [][BoxNext]_vars

\* parseBoxes is synchronous code: once called it runs every turn of its
\* loops that can run, and init() goes on to its media data step.
BoxFairSpec == BoxSpec /\ WF_vars(BoxNext)

----------------------------------------------------------------------------
(* Properties of the box parser *)

\* The boxes of a list with all the boxes under them
RECURSIVE BoxesIn(_)
BoxesIn(boxes) ==
    UNION {{boxes[k]} \cup (IF boxes[k].children = <<>> THEN {}
                            ELSE BoxesIn(boxes[k].children[1])) : k \in 1..Len(boxes)}

\* Every box the parser has produced so far
Produced ==
    BoxesIn(parser.boxes) \cup UNION {BoxesIn(parser.loops[k].children) : k \in DOMAIN parser.loops}

\* C23: every box the parser produces, with the 8-byte header or the 16-byte
\* extended one, has as its offset the file offset of the first byte of its
\* header, a payload whose length added to the header's gives its size, and
\* leaves the parser at offset + size.
C23_BoxSpansOffsetToSize ==
    \A b \in Produced :
        /\ b.offset = b.headerAt
        /\ b.data # <<>> => b.data[1].byteLength + b.headerLen = b.size
        /\ b.resumedAt = b.offset + b.size

\* The top-level media data boxes the parser produced, by position
TopLevelMdat == {k \in 1..Len(parser.boxes) : parser.boxes[k].type = "mdat"}

\* C24: once init() has looked for the media data of a file that has a
\* top-level mdat box, mdatOffset is the file offset of that box's first
\* payload byte, its header's first byte plus the 8 or 16 bytes of its header,
\* and mdatSize is the length of its payload.
C24_MdatIsTopLevelPayload ==
    (lastOp.op = "findMdat" /\ TopLevelMdat # {}) =>
        LET b == parser.boxes[CHOOSE k \in TopLevelMdat : \A j \in TopLevelMdat : k <= j]
        IN  /\ mdatOffset = b.headerAt + b.headerLen
            /\ mdatSize = b.size - b.headerLen

\* The types the design parses children of
DesignContainers ==
    {"moov", "trak", "mdia", "minf", "stbl", "udta", "meta", "dinf", "edts",
     "mvex", "moof", "traf", "mfra", "uuid"}

\* C25: the parser parses children of a box exactly when its type is one of
\* moov, trak, mdia, minf, stbl, udta, meta, dinf, edts, mvex, moof, traf,
\* mfra, uuid; a box of any other type, free, skip, wide and pnot among them,
\* is a leaf that keeps its payload as data.
C25_ContainersAreTheDesignSet ==
    \A b \in Produced :
        /\ b.children # <<>> <=> b.type \in DesignContainers
        /\ b.data # <<>> <=> b.type \notin DesignContainers

\* The file offset a box ends at by its header
EndOf(b) == b.headerAt + b.size

\* C26: when a child header declares a size that crosses the end of its
\* parent, the parent's child list ends there and parsing goes on at the
\* parent's end offset, with the parent's next sibling; no child reaches past
\* its parent's end, and no byte inside a box's payload is read as the header
\* of a box of an outer level.
C26_CrossingChildEndsContainer ==
    /\ \A c \in Produced :
           /\ c.stopped = "crossing" => c.resumedAt = EndOf(c)
           /\ c.children # <<>> =>
                  \A k \in 1..Len(c.children[1]) : EndOf(c.children[1][k]) <= EndOf(c)
    /\ \A k \in 2..Len(parser.boxes) :
           parser.boxes[k].headerAt >= EndOf(parser.boxes[k - 1])

\* C30: parseBoxes() terminates on every finite buffer, whatever sizes its
\* headers declare (0, 1, below a header's length, beyond the bytes left) and
\* however its containers nest: every turn of the top-level loop and of a
\* container loop consumes at least 8 bytes or ends its loop, and the parse
\* reaches its end.
C30_ParseBoxesTerminates ==
    /\ [][~parser.done =>
            \/ position(reader') >= position(reader) + 8
            \/ Len(parser'.loops) < Len(parser.loops)
            \/ parser'.done]_vars
    /\ [](position(reader) <= reader.byteLength)
    /\ <>parser.done

\* A parse has ended on a header cut short, after a container whose child
\* declared a size past its end and a container with a container in it.
C30_Witness ==
    /\ parser.done
    /\ remaining(reader) > 0
    /\ \E c \in Produced : c.stopped = "crossing"
    /\ \E c \in Produced : c.children # <<>> /\ c.children[1] # <<>>

----------------------------------------------------------------------------
(* The ByteReader as a state machine: a reader over a window of a buffer,
   and the reads a caller may make of it in any order *)

MaxBytes == 8

\* A buffer of MaxBytes bytes, each its own index
Bytes == [k \in 1..MaxBytes |-> k]

\* Readers over the whole buffer and over windows of it, as the parsers
\* build them over a box's data
Windows ==
    UNION {{ByteReader(Bytes, byteOffset, byteLength) : byteLength \in 0..(MaxBytes - byteOffset)} :
              byteOffset \in {0, MaxBytes \div 2}}

ReaderInit ==
    /\ Constructed(File(MaxBytes, <<>>, <<>>, <<>>), DefaultOptions)
    /\ reader \in Windows
    /\ parser = <<>>
    /\ calls = <<>>
    /\ decoded = <<>>

\* The caller makes a read that takes n bytes
CallRead(op, n, read) ==
    /\ reader' = read.reader
    /\ result' = IF read.ret.ok THEN Returned("value", <<read.ret.val>>)
                 ELSE Thrown(read.ret.err)
    /\ lastOp' = Call(op, n)
    /\ UNCHANGED << parser, calls, decoded >>
    /\ UNCHANGED << file, options, streams, timeScale, duration, mdatOffset, mdatSize,
                    samples, currentSampleIndex, webcodecs, lifecycle, inits >>

CallReadUint8 == \E r \in {readUint8(reader)} : CallRead("readUint8", 1, r)
CallReadUint16 == \E r \in {readUint16(reader)} : CallRead("readUint16", 2, r)
CallReadUint24 == \E r \in {readUint24(reader)} : CallRead("readUint24", 3, r)
CallReadUint32 == \E r \in {readUint32(reader)} : CallRead("readUint32", 4, r)
CallReadUint64 == \E r \in {readUint64(reader)} : CallRead("readUint64", 8, r)
CallReadFourCC == \E r \in {readFourCC(reader)} : CallRead("readFourCC", 4, r)
CallReadBytes(n) == \E r \in {readBytes(reader, n)} : CallRead("readBytes", n, r)
CallSubReader(n) == \E r \in {subReader(reader, n)} : CallRead("subReader", n, r)

\* skip returns nothing. The model stops skipping two buffers out.
CallSkip(n) ==
    /\ position(reader) + n <= 2 * MaxBytes
    /\ CallRead("skip", n, Read(skip(reader, n), Ok(0)))

ReaderNext ==
    \/ CallReadUint8
    \/ CallReadUint16
    \/ CallReadUint24
    \/ CallReadUint32
    \/ CallReadUint64
    \/ CallReadFourCC
    \/ \E n \in 0..MaxBytes : CallReadBytes(n)
    \/ \E n \in 0..MaxBytes : CallSubReader(n)
    \/ \E n \in 0..MaxBytes : CallSkip(n)

ReaderSpec == ReaderInit /\ [][ReaderNext]_vars

----------------------------------------------------------------------------
(* Properties of the byte reader *)

\* C27: every read that takes n bytes (the 8, 16, 24, 32 and 64-bit reads,
\* readBytes(n), readFourCC, skip(n), subReader(n)) first checks that n bytes
\* remain, and fails with CorruptData without taking any byte when they do
\* not, so that the position stays between 0 and the length of the buffer.
C27_ReadsValidateRemaining ==
    [][/\ remaining(reader) < lastOp'.arg =>
              /\ result' = Thrown(corruptData)
              /\ position(reader') = position(reader)
       /\ 0 <= position(reader')
       /\ position(reader') <= reader'.byteLength]_vars

----------------------------------------------------------------------------
(* StreamParser: the sample description of an audio track, from the bytes of
   its stsd box to the configuration of the audio decoder *)

\* const x = read, followed by F(x), unless the read threw
Then(read, F(_)) == With(read, LAMBDA x : IF x.ret.ok THEN F(x) ELSE x)

parseAudioSampleDescription(r, codecType, entrySize) ==
    Then(readUint16(r), LAMBDA version :
    Then(readUint16(version.reader), LAMBDA revisionLevel :
    Then(readUint32(revisionLevel.reader), LAMBDA vendor :
    Then(readUint16(vendor.reader), LAMBDA channels :
    Then(readUint16(channels.reader), LAMBDA bitDepth :
    Then(readInt16(bitDepth.reader), LAMBDA compressionId :
    Then(readUint16(compressionId.reader), LAMBDA packetSize :
    Then(readFixed16(packetSize.reader), LAMBDA sampleRate :
        LET remainingBytes == entrySize - (position(sampleRate.reader) - 8)
            description == [codecType |-> codecType, sampleRate |-> sampleRate.ret.val,
                            channels |-> channels.ret.val, bitDepth |-> bitDepth.ret.val,
                            extraData |-> <<>>]
        IN  IF remainingBytes > 0
            THEN Then(readBytes(sampleRate.reader, remainingBytes), LAMBDA extraData :
                     Read(extraData.reader,
                          Ok([description EXCEPT !.extraData = <<extraData.ret.val>>])))
            ELSE Read(sampleRate.reader, Ok(description))))))))))

\* parseSTSD of an audio track, on a reader over the data of the stsd box
parseSTSD(r) ==
    Then(readUint8(r), LAMBDA version :
    Then(readUint24(version.reader), LAMBDA flags :
    Then(readUint32(flags.reader), LAMBDA entryCount :
        IF entryCount.ret.val = 0
        THEN Read(entryCount.reader,
                  Ok([codecType |-> "unknown", sampleRate |-> Rat(0, 1), channels |-> 0,
                      bitDepth |-> 0, extraData |-> <<>>]))
        ELSE Then(readUint32(entryCount.reader), LAMBDA entrySize :
             Then(readFourCC(entrySize.reader), LAMBDA codecType :
             Then(readBytes(codecType.reader, 6), LAMBDA reserved :
             Then(readUint16(reserved.reader), LAMBDA dataReferenceIndex :
                 parseAudioSampleDescription(dataReferenceIndex.reader, codecType.ret.val,
                                             entrySize.ret.val))))))))

\* parseTrack: what the stream of an audio track takes from its description
audioStream(trackId, sampleDesc) ==
    [id |-> trackId, type |-> "audio", codecType |-> sampleDesc.codecType,
     sampleRate |-> sampleDesc.sampleRate, channels |-> sampleDesc.channels,
     bitDepth |-> sampleDesc.bitDepth, extraData |-> sampleDesc.extraData]

\* stream.channels || 2 and stream.sampleRate || 44100: zero counts as absent
createAudioDecoderConfig(stream) ==
    [codec |-> mapAudioCodec(stream.codecType),
     numberOfChannels |-> IF stream.channels = 0 THEN 2 ELSE stream.channels,
     sampleRate |-> IF stream.sampleRate.num = 0 THEN Rat(44100, 1) ELSE stream.sampleRate,
     description |-> stream.extraData]

----------------------------------------------------------------------------
(* Audio tracks *)

MaxChannels == 2

Uint16(n) == <<n \div 256, n % 256>>

\* The data of an stsd box with one 36-byte audio entry
StsdData(channels, bitDepth, rate, fraction) ==
    <<0, 0, 0, 0>> \o Uint32(1)
    \o Uint32(36) \o ASCII["mp4a"] \o <<0, 0, 0, 0, 0, 0>> \o Uint16(1)
    \o Uint16(0) \o Uint16(0) \o Uint32(0)
    \o Uint16(channels) \o Uint16(bitDepth) \o Uint16(0) \o Uint16(0)
    \o Uint16(rate) \o Uint16(fraction)

\* Sample rates in Hz, with those of telephony, CD and DAT and the ends of
\* the 16-bit range, and fractions of a Hz in 1/65536
SampleRates == {0, 8000, 11025, 22050, 32000, 32767, 32768, 44100, 48000, 65535}
Fractions == {0, 32768}

AudioInit ==
    /\ \E channels \in 1..MaxChannels, rate \in SampleRates, fraction \in Fractions :
           \E data \in {StsdData(channels, 16, rate, fraction)} :
               /\ Constructed(File(Len(data), <<>>, <<>>, <<>>), DefaultOptions)
               /\ reader = ByteReader(data, 0, Len(data))
    /\ parser = <<>>
    /\ calls = <<>>
    /\ decoded = <<>>

\* parseTrack reads the description of the track and builds its stream
CallParseSTSD ==
    /\ lastOp.op = "new"
    /\ \E r \in {parseSTSD(reader)} :
           /\ reader' = r.reader
           /\ result' = IF r.ret.ok THEN Returned("description", <<r.ret.val>>)
                        ELSE Thrown(r.ret.err)
           /\ streams' = IF r.ret.ok THEN <<audioStream(0, r.ret.val)>> ELSE streams
    /\ lastOp' = Call("parseSTSD", 0)
    /\ UNCHANGED << parser, calls, decoded >>
    /\ UNCHANGED << file, options, timeScale, duration, mdatOffset, mdatSize,
                    samples, currentSampleIndex, webcodecs, lifecycle, inits >>

\* initWebCodecs builds the decoder configuration of the stream
CallCreateAudioDecoderConfig ==
    /\ lastOp.op = "parseSTSD"
    /\ streams # <<>>
    /\ result' = Returned("config", <<createAudioDecoderConfig(streams[1])>>)
    /\ lastOp' = Call("createAudioDecoderConfig", 0)
    /\ UNCHANGED << reader, parser, calls, decoded >>
    /\ UNCHANGED << file, options, streams, timeScale, duration, mdatOffset, mdatSize,
                    samples, currentSampleIndex, webcodecs, lifecycle, inits >>

AudioNext ==
    \/ CallParseSTSD
    \/ CallCreateAudioDecoderConfig

AudioSpec == AudioInit /\ [][AudioNext]_vars

----------------------------------------------------------------------------
(* Properties of the audio sample rate *)

\* The 16.16 fixed-point sample rate the stsd entry stores, as its whole
\* part and its fraction in 1/65536
StoredRate ==
    [whole |-> 256 * reader.buffer[41] + reader.buffer[42],
     fraction |-> 256 * reader.buffer[43] + reader.buffer[44]]

\* C29: the sample rate of an audio track is the unsigned 16.16 fixed-point
\* value its sample description stores and is never negative; rates whose top
\* bit is set, such as 44100 and 48000, come out as 44100 and 48000.
C29_SampleRateIsUnsignedFixed ==
    (lastOp.op = "parseSTSD" /\ streams # <<>>) =>
        /\ streams[1].sampleRate.num >= 0
        /\ streams[1].sampleRate.num \div streams[1].sampleRate.den = StoredRate.whole
        /\ streams[1].sampleRate.num % streams[1].sampleRate.den = StoredRate.fraction

----------------------------------------------------------------------------
(* readFrame as an async function.  A call runs without interruption up to
   its await: it takes the next sample, builds the frame and, inside
   decodeFrame and decodeVideoFrame or decodeAudioFrame, hands the chunk to
   the decoder.  It is resumed later, in any order with the other calls, and
   then returns.  Each call and each chunk keeps the cursor position the call
   found (sample): the code has no such field. *)

\* decodeFrame as far as decoder.decode(chunk): a configured decoder queues
\* the chunk, a closed one throws, and without a decoder nothing is done
decodeFrame(wc, frame, sample, queue) ==
    LET decoder == IF frame.type = "video" THEN wc.videoDecoder ELSE wc.audioDecoder
        chunk == [type |-> IF frame.isKeyframe THEN "key" ELSE "delta",
                  timestamp |-> frame.timestamp, duration |-> frame.duration,
                  data |-> frame.data, sample |-> sample]
    IN  IF decoder = "absent" THEN [decoded |-> queue, thrown |-> <<>>]
        ELSE IF decoder = "closed" THEN [decoded |-> queue, thrown |-> <<InvalidStateError>>]
        ELSE [decoded |-> Append(queue, chunk), thrown |-> <<>>]

\* A readFrame that leaves the cursor to be moved once it is resumed
readFrameStartKeepingCursor(list, index, strs, bufLen, mdatOff, wc, queue) ==
    With(readFrame(list, index, strs, bufLen, mdatOff), LAMBDA r :
        IF r.ret.kind # "frame" \/ wc = <<>>
        THEN [index |-> index, decoded |-> queue,
              call |-> [sample |-> index, ret |-> r.ret, pc |-> "returned", thrown |-> <<>>]]
        ELSE With(decodeFrame(wc[1], r.ret.val[1], index, queue), LAMBDA d :
                 [index |-> index, decoded |-> d.decoded,
                  call |-> [sample |-> index, ret |-> r.ret, pc |-> "await",
                            thrown |-> d.thrown]]))

\* readFrame up to its await, or to its return when it does not get there:
\* the cursor and the decoder queue it leaves, and the call as it stands
readFrameStart(list, index, strs, bufLen, mdatOff, wc, queue) ==
    With(readFrame(list, index, strs, bufLen, mdatOff), LAMBDA r :
        IF r.ret.kind # "frame" \/ wc = <<>>
        THEN [index |-> r.index, decoded |-> queue,
              call |-> [sample |-> index, ret |-> r.ret, pc |-> "returned", thrown |-> <<>>]]
        ELSE With(decodeFrame(wc[1], r.ret.val[1], index, queue), LAMBDA d :
                 [index |-> r.index, decoded |-> d.decoded,
                  call |-> [sample |-> index, ret |-> r.ret, pc |-> "await",
                            thrown |-> d.thrown]]))

\* readFrame from its await on: what decodeFrame threw is caught and logged,
\* and the frame is returned
readFrameResume(call) == [call EXCEPT !.pc = "returned"]

----------------------------------------------------------------------------
(* Concurrent readFrame calls on a demuxer that init() has filled *)

MaxCalls == 3

\* Files of MaxTracks video and audio tracks of one sample each
FrameFiles ==
    {File(MediaBufLen, <<>>, <<Moov(<<Mvhd>>, traks)>>, LeadingMdat) :
        traks \in [1..MaxTracks -> {t \in MediaTracks : t.hdlr # "hint"}]}

FrameInit ==
    /\ \E f \in FrameFiles :
           \E r \in {init(f, DefaultOptions,
                          [streams |-> <<>>, samples |-> <<>>,
                           timeScale |-> DEFAULT_TIME_SCALE, duration |-> DEFAULT_DURATION,
                           mdatOffset |-> 0, mdatSize |-> 0, thrown |-> <<>>])} :
               /\ file = f
               /\ streams = r.streams
               /\ samples = r.samples
               /\ timeScale = r.timeScale
               /\ duration = r.duration
               /\ mdatOffset = r.mdatOffset
               /\ mdatSize = r.mdatSize
    /\ options = DefaultOptions
    /\ currentSampleIndex = 0
    /\ webcodecs = <<>>
    /\ lastOp = Call("init", 0)
    /\ result = Void
    /\ lifecycle = "Initialised"
    /\ inits = 1
    /\ reader = <<>>
    /\ parser = <<>>
    /\ calls = <<>>
    /\ decoded = <<>>

\* The caller calls readFrame() without waiting for the calls it made before
StartReadFrame ==
    /\ Len(calls) < MaxCalls
    /\ \E r \in {readFrameStart(samples, currentSampleIndex, streams, file.bufLen,
                                mdatOffset, webcodecs, decoded)} :
           /\ currentSampleIndex' = r.index
           /\ decoded' = r.decoded
           /\ calls' = Append(calls, r.call)
           /\ result' = IF r.call.pc = "returned" THEN r.call.ret ELSE result
    /\ lastOp' = Call("readFrame", Len(calls) + 1)
    /\ UNCHANGED << reader, parser >>
    /\ UNCHANGED << file, options, streams, timeScale, duration, mdatOffset, mdatSize,
                    samples, webcodecs, lifecycle, inits >>

\* The event loop resumes one of the calls that wait at their await
ResumeReadFrame(k) ==
    /\ k \in 1..Len(calls)
    /\ calls[k].pc = "await"
    /\ calls' = [calls EXCEPT ![k] = readFrameResume(calls[k])]
    /\ result' = calls'[k].ret
    /\ lastOp' = Call("readFrame", k)
    /\ UNCHANGED << reader, parser, decoded >>
    /\ UNCHANGED << file, options, streams, timeScale, duration, mdatOffset, mdatSize,
                    samples, currentSampleIndex, webcodecs, lifecycle, inits >>

FrameNext ==
    \/ StartReadFrame
    \/ \E k \in 1..MaxCalls : ResumeReadFrame(k)
    \/ CallInitWebCodecs
    \/ \E which \in {"video", "audio"} : DecoderError(which)

FrameSpec == FrameInit /\ [][FrameNext]_vars

----------------------------------------------------------------------------
(* Properties of concurrent readFrame calls *)

\* The frame readFrame builds of the sample at a cursor position
FrameOf(index) ==
    LET sample == samples[index + 1]
    IN  [data |-> <<mdatOffset + sample.offset, sample.size>>,
         timestamp |-> sample.timestamp, duration |-> sample.duration,
         isKeyframe |-> sample.isKeyframe, streamId |-> sample.streamId,
         type |-> IF HandlerOf(sample.streamId) = "vide" THEN "video" ELSE "audio"]

\* C28: when readFrame() calls are started before earlier ones have
\* resolved, each call takes the cursor position after the one before it, so
\* the calls get distinct consecutive samples and none is returned twice or
\* skipped; the chunks reach the decoders in cursor order; and a call whose
\* decode failed still returns its frame.
C28_ConcurrentReadsTakeConsecutiveSamples ==
    /\ \A k \in 1..Len(calls) :
           /\ calls[k].sample = k - 1
           /\ calls[k].ret = IF k <= Len(samples)
                             THEN Returned("frame", <<FrameOf(k - 1)>>) ELSE Null
    /\ \A i, j \in 1..Len(decoded) : i < j => decoded[i].sample < decoded[j].sample
    /\ currentSampleIndex = Min(Len(calls), Len(samples))
    /\ (lastOp.op = "readFrame" /\ calls[lastOp.arg].pc = "returned") =>
           result = calls[lastOp.arg].ret

\* Two calls are in flight together; the second, whose decoder had closed and
\* threw, has returned its frame while the first still waits, its chunk queued.
C28_Witness ==
    /\ Len(calls) >= 2
    /\ calls[1].pc = "await"
    /\ calls[2].pc = "returned"
    /\ calls[2].thrown # <<>>
    /\ result = Returned("frame", <<FrameOf(1)>>)
    /\ decoded # <<>>

====
